---- MODULE Spec2Model ----
(***************************************************************************)
(* Model of espeonage: the replay log processor (replay_parser.py), the    *)
(* entity registry (pokemon_tracker.py) and the attribution engine         *)
(* (battle_simulator.py).                                                  *)
(*                                                                         *)
(* Representation of Python values.                                        *)
(*  - A str is the sequence of its tokens.  The characters the code cuts   *)
(*    or tests on ('|', '-', ':', '/', ',', ' ', newline, digits, ...) are *)
(*    one token each; a maximal run of letters is one token.  A slice      *)
(*    s[:n] is taken on tokens, so the inputs below keep single letters    *)
(*    wherever the code slices ("p","1","a").                              *)
(*  - Optional[T] is a sequence of length at most one: None == << >>,      *)
(*    Some(x) == <<x>>.                                                    *)
(*  - A dict is a function; its keys are DOMAIN.  A list is a sequence.    *)
(*  - A raised exception is recorded in the variable raised and ends the   *)
(*    run; the assignments made before the raise are kept.                 *)
(***************************************************************************)
EXTENDS Integers, Sequences, FiniteSets, TLC

VARIABLES
    pokemon,         \* PokemonTracker.pokemon : id -> PokemonData
    teams,           \* PokemonTracker.teams : player -> list of ids
    active_pokemon,  \* BattleSimulator.active_pokemon : player -> Optional id
    last_move,       \* BattleSimulator.last_move : player -> {pokemon, move}
    entry,           \* loop variable of process_battle_log (last entry handled)
    n,               \* number of entries handled so far
    raised,          \* exception that ended the run, "none" if none
    pc,              \* position of the caller
    result,          \* value returned by process_battle_log
    log_text,        \* argument of parse_raw_log
    lines,           \* local of _process_log: log_text.split('\n')
    idx,             \* position of the for loop of _process_log (1-based)
    battle_log,      \* ReplayParser.battle_log
    hash_seed        \* the interpreter's string-hash seed, fixed per process

simvars == <<pokemon, teams, active_pokemon, last_move, entry, n, raised, result, hash_seed>>
parvars == <<log_text, lines, idx, battle_log>>
vars == <<pokemon, teams, active_pokemon, last_move, entry, n, raised, pc, result,
          log_text, lines, idx, battle_log, hash_seed>>

-----------------------------------------------------------------------------
(* Bounds *)

MaxEvents == 5
MaxLines == 3
MaxPipeLines == 3

-----------------------------------------------------------------------------
(* Python values *)

None == << >>
Some(x) == <<x>>
Str(w) == <<w>>

Whitespace == {" ", "\t", "\n", "\r"}

Digits == {"0", "1", "2", "3", "4", "5", "6", "7", "8", "9"}

DigitVal(d) ==
    CASE d = "0" -> 0 [] d = "1" -> 1 [] d = "2" -> 2 [] d = "3" -> 3
      [] d = "4" -> 4 [] d = "5" -> 5 [] d = "6" -> 6 [] d = "7" -> 7
      [] d = "8" -> 8 [] d = "9" -> 9

Contains(s, c) == \E i \in 1..Len(s) : s[i] = c

StartsWith(s, p) == Len(s) >= Len(p) /\ SubSeq(s, 1, Len(p)) = p

\* s[:k]
Take(s, k) == SubSeq(s, 1, IF Len(s) < k THEN Len(s) ELSE k)

\* position of the first occurrence of the token sequence sep in s, 0 if none
RECURSIVE FindFrom(_, _, _)
FindFrom(s, sep, i) ==
    IF i + Len(sep) - 1 > Len(s) THEN 0
    ELSE IF SubSeq(s, i, i + Len(sep) - 1) = sep THEN i
    ELSE FindFrom(s, sep, i + 1)

\* str.split(sep): every part between occurrences of sep
RECURSIVE Split(_, _)
RECURSIVE SplitAt(_, _, _)
SplitAt(s, sep, k) ==
    IF k = 0 THEN <<s>>
    ELSE <<SubSeq(s, 1, k - 1)>> \o Split(SubSeq(s, k + Len(sep), Len(s)), sep)

Split(s, sep) == SplitAt(s, sep, FindFrom(s, sep, 1))

\* str.split(sep, 1): cut at the first occurrence only
Split1At(s, sep, k) ==
    IF k = 0 THEN <<s>>
    ELSE <<SubSeq(s, 1, k - 1), SubSeq(s, k + Len(sep), Len(s))>>

Split1(s, sep) == Split1At(s, sep, FindFrom(s, sep, 1))

RECURSIVE LStripSet(_, _)
LStripSet(s, cs) ==
    IF s # << >> /\ Head(s) \in cs THEN LStripSet(Tail(s), cs) ELSE s

RECURSIVE RStripSet(_, _)
RStripSet(s, cs) ==
    IF s # << >> /\ s[Len(s)] \in cs THEN RStripSet(SubSeq(s, 1, Len(s) - 1), cs) ELSE s

\* str.strip()
Strip(s) == RStripSet(LStripSet(s, Whitespace), Whitespace)

\* position of the first token of s in cs at or after i, Len(s) + 1 if none
RECURSIVE FirstIn(_, _, _)
FirstIn(s, cs, i) ==
    IF i > Len(s) THEN Len(s) + 1
    ELSE IF s[i] \in cs THEN i
    ELSE FirstIn(s, cs, i + 1)

\* str.split() without argument: the runs of non-whitespace
RECURSIVE SplitWs(_)
RECURSIVE SplitWsAt(_, _)
SplitWsAt(t, k) ==
    IF t = << >> THEN << >>
    ELSE <<SubSeq(t, 1, k - 1)>> \o SplitWs(SubSeq(t, k, Len(t)))

SplitWsStripped(t) == SplitWsAt(t, FirstIn(t, Whitespace, 1))

SplitWs(s) == SplitWsStripped(LStripSet(s, Whitespace))

IsDigits(u) == u # << >> /\ \A i \in 1..Len(u) : u[i] \in Digits

Unsigned(t) == IF t # << >> /\ Head(t) \in {"-", "+"} THEN Tail(t) ELSE t

\* does int(s) succeed: an optional sign and at least one digit
IsInt(s) == IsDigits(Unsigned(Strip(s)))

RECURSIVE NatOf(_)
NatOf(u) == IF u = << >> THEN 0 ELSE 10 * NatOf(SubSeq(u, 1, Len(u) - 1)) + DigitVal(u[Len(u)])

SignedVal(t) ==
    IF Head(t) = "-" THEN 0 - NatOf(Tail(t))
    ELSE IF Head(t) = "+" THEN NatOf(Tail(t))
    ELSE NatOf(t)

\* int(s), for s with IsInt(s)
IntOf(s) == SignedVal(Strip(s))

\* dict.get(key) with default
Get(d, k, default) == IF k \in DOMAIN d THEN d[k] ELSE default

\* d[k] = v on a dict
Put(d, k, v) == [x \in DOMAIN d \cup {k} |-> IF x = k THEN v ELSE d[x]]

P1 == <<"p", "1">>
P2 == <<"p", "2">>

-----------------------------------------------------------------------------
(* battle_simulator.py: move classification *)

NON_ATTACK_MOVES == {
    <<"Acid", " ", "Armor">>,
    <<"Acupressure">>,
    <<"Agility">>,
    <<"Ally", " ", "Switch">>,
    <<"Amnesia">>,
    <<"Aromatherapy">>,
    <<"Attract">>,
    <<"Aurora", " ", "Veil">>,
    <<"Baby", "-", "Doll", " ", "Eyes">>,
    <<"Baneful", " ", "Bunker">>,
    <<"Barrier">>,
    <<"Baton", " ", "Pass">>,
    <<"Belly", " ", "Drum">>,
    <<"Bestow">>,
    <<"Bind">>,
    <<"Block">>,
    <<"Bulk", " ", "Up">>,
    <<"Burning", " ", "Bulwark">>,
    <<"Calm", " ", "Mind">>,
    <<"Camouflage">>,
    <<"Celebrate">>,
    <<"Charge">>,
    <<"Clamp">>,
    <<"Coil">>,
    <<"Confuse", " ", "Ray">>,
    <<"Conversion">>,
    <<"Conversion", " ", "2">>,
    <<"Copycat">>,
    <<"Cosmic", " ", "Power">>,
    <<"Cotton", " ", "Guard">>,
    <<"Curse">>,
    <<"Defend", " ", "Order">>,
    <<"Defense", " ", "Curl">>,
    <<"Detect">>,
    <<"Disable">>,
    <<"Dragon", " ", "Dance">>,
    <<"Electric", " ", "Terrain">>,
    <<"Embargo">>,
    <<"Encore">>,
    <<"Endure">>,
    <<"Entrainment">>,
    <<"Fire", " ", "Spin">>,
    <<"Flower", " ", "Shield">>,
    <<"Focus", " ", "Energy">>,
    <<"Follow", " ", "Me">>,
    <<"Forest", "'", "s", " ", "Curse">>,
    <<"Gear", " ", "Up">>,
    <<"Geomancy">>,
    <<"Glare">>,
    <<"Grassy", " ", "Terrain">>,
    <<"Gravity">>,
    <<"Growth">>,
    <<"Guard", " ", "Split">>,
    <<"Guard", " ", "Swap">>,
    <<"Hail">>,
    <<"Happy", " ", "Hour">>,
    <<"Harden">>,
    <<"Heal", " ", "Bell">>,
    <<"Heal", " ", "Block">>,
    <<"Heal", " ", "Order">>,
    <<"Healing", " ", "Wish">>,
    <<"Heart", " ", "Swap">>,
    <<"Helping", " ", "Hand">>,
    <<"Hold", " ", "Hands">>,
    <<"Hone", " ", "Claws">>,
    <<"Howl">>,
    <<"Hypnosis">>,
    <<"Infestation">>,
    <<"Instruct">>,
    <<"Ion", " ", "Deluge">>,
    <<"Iron", " ", "Defense">>,
    <<"King", "'", "s", " ", "Shield">>,
    <<"Leech", " ", "Seed">>,
    <<"Life", " ", "Dew">>,
    <<"Light", " ", "Screen">>,
    <<"Lunar", " ", "Dance">>,
    <<"Magic", " ", "Room">>,
    <<"Magma", " ", "Storm">>,
    <<"Magnetic", " ", "Flux">>,
    <<"Me", " ", "First">>,
    <<"Mean", " ", "Look">>,
    <<"Meditate">>,
    <<"Metronome">>,
    <<"Milk", " ", "Drink">>,
    <<"Mimic">>,
    <<"Mist">>,
    <<"Misty", " ", "Terrain">>,
    <<"Moonlight">>,
    <<"Morning", " ", "Sun">>,
    <<"Nasty", " ", "Plot">>,
    <<"Nightmare">>,
    <<"No", " ", "Retreat">>,
    <<"Obstruct">>,
    <<"Paralyze">>,
    <<"Parting", " ", "Shot">>,
    <<"Perish", " ", "Song">>,
    <<"Play", " ", "Nice">>,
    <<"Poison", " ", "Powder">>,
    <<"Powder">>,
    <<"Power", " ", "Split">>,
    <<"Power", " ", "Swap">>,
    <<"Power", " ", "Trick">>,
    <<"Protect">>,
    <<"Psych", " ", "Up">>,
    <<"Psychic", " ", "Terrain">>,
    <<"Purify">>,
    <<"Quiver", " ", "Dance">>,
    <<"Rage", " ", "Powder">>,
    <<"Rain", " ", "Dance">>,
    <<"Recover">>,
    <<"Recycle">>,
    <<"Reflect">>,
    <<"Refresh">>,
    <<"Rest">>,
    <<"Rock", " ", "Polish">>,
    <<"Role", " ", "Play">>,
    <<"Roost">>,
    <<"Rototiller">>,
    <<"Safeguard">>,
    <<"Sand", " ", "Tomb">>,
    <<"Sandstorm">>,
    <<"Sharpen">>,
    <<"Shed", " ", "Shell">>,
    <<"Shell", " ", "Smash">>,
    <<"Shift", " ", "Gear">>,
    <<"Shore", " ", "Up">>,
    <<"Silk", " ", "Trap">>,
    <<"Skill", " ", "Swap">>,
    <<"Slack", " ", "Off">>,
    <<"Sleep", " ", "Powder">>,
    <<"Snatch">>,
    <<"Snore">>,
    <<"Snow">>,
    <<"Soft", "-", "Boiled">>,
    <<"Speed", " ", "Swap">>,
    <<"Spider", " ", "Web">>,
    <<"Spikes">>,
    <<"Spiky", " ", "Shield">>,
    <<"Splash">>,
    <<"Spore">>,
    <<"Spotlight">>,
    <<"Stealth", " ", "Rock">>,
    <<"Sticky", " ", "Web">>,
    <<"Stockpile">>,
    <<"Strength", " ", "Sap">>,
    <<"Stun", " ", "Spore">>,
    <<"Substitute">>,
    <<"Sunny", " ", "Day">>,
    <<"Supersonic">>,
    <<"Swagger">>,
    <<"Swallow">>,
    <<"Sweet", " ", "Kiss">>,
    <<"Switcheroo">>,
    <<"Swords", " ", "Dance">>,
    <<"Synthesis">>,
    <<"Tail", " ", "Glow">>,
    <<"Tailwind">>,
    <<"Taunt">>,
    <<"Tearful", " ", "Look">>,
    <<"Teleport">>,
    <<"Thunder", " ", "Wave">>,
    <<"Torment">>,
    <<"Toxic">>,
    <<"Toxic", " ", "Spikes">>,
    <<"Transform">>,
    <<"Trick">>,
    <<"Trick", " ", "Room">>,
    <<"Trick", "-", "or", "-", "Treat">>,
    <<"Venom", " ", "Drench">>,
    <<"Whirlpool">>,
    <<"Will", "-", "O", "-", "Wisp">>,
    <<"Wish">>,
    <<"Withdraw">>,
    <<"Wonder", " ", "Room">>,
    <<"Work", " ", "Up">>,
    <<"Wrap">>,
    <<"Yawn">>
}

\* a classification that trims the name before the membership test
_is_attack_move_trimmed(move) == Strip(move) \notin NON_ATTACK_MOVES

\* the test inverted: "move in self.NON_ATTACK_MOVES"
_is_attack_move_inverted(move) == move \in NON_ATTACK_MOVES

_is_attack_move(move) == move \notin NON_ATTACK_MOVES

-----------------------------------------------------------------------------
(* pokemon_tracker.py.  The operators take and return the record           *)
(*   st = [pokemon, teams, active_pokemon, last_move, raised]              *)
(* of the objects a handler works on.                                      *)

\* PokemonData(name, species, level, gender); the other fields at their defaults
\* (observed_stats is never read or written and is left out)
PokemonData(name, species, level, gender) ==
    [name |-> name, species |-> species, level |-> level, gender |-> gender,
     moves |-> {}, ability |-> None, item |-> None,
     hp_max |-> None, hp_current |-> None,
     knockouts |-> 0, deaths |-> 0, damage_dealt |-> 0, damage_taken |-> 0]

\* one pass of the loop "for part in parts[1:]" of register_pokemon
DetailPart(part, acc) ==
    IF StartsWith(part, Str("L"))
    THEN IF IsInt(Tail(part)) THEN [acc EXCEPT !.level = IntOf(Tail(part))] ELSE acc
    ELSE IF part \in {Str("M"), Str("F")} THEN [acc EXCEPT !.gender = part]
    ELSE acc

RECURSIVE ParseDetailParts(_, _)
ParseDetailParts(parts, acc) ==
    IF parts = << >> THEN acc
    ELSE ParseDetailParts(Tail(parts), DetailPart(Head(parts), acc))

WithLevelGender(name, species, lg) == PokemonData(name, species, lg.level, lg.gender)

RecordFromParts(name, parts) ==
    WithLevelGender(name, parts[1],
                    ParseDetailParts(Tail(parts), [level |-> 100, gender |-> << >>]))

\* the record register_pokemon builds from the details string
NewRecord(name, details) ==
    IF details = << >> THEN PokemonData(name, name, 100, << >>)
    ELSE RecordFromParts(name, Split(details, <<",", " ">>))

\* "if pokemon_id not in self.teams[player]: self.teams[player].append(pokemon_id)"
AppendTeam(st, player, pokemon_id) ==
    IF player \notin DOMAIN st.teams THEN [st EXCEPT !.raised = "KeyError"]
    ELSE IF \E i \in 1..Len(st.teams[player]) : st.teams[player][i] = pokemon_id THEN st
    ELSE [st EXCEPT !.teams[player] = Append(@, pokemon_id)]

RegisterNew(st, player, pokemon_id, name, details) ==
    AppendTeam([st EXCEPT !.pokemon = Put(st.pokemon, pokemon_id, NewRecord(name, details))],
               player, pokemon_id)

register_pokemon(st, player, position, name, details) ==
    IF (player \o <<":">> \o name) \in DOMAIN st.pokemon THEN st
    ELSE RegisterNew(st, player, player \o <<":">> \o name, name, details)

\* a move tracker that keeps only the move revealed last
track_move_Replaces(st, user, move) ==
    IF user \in DOMAIN st.pokemon
    THEN [st EXCEPT !.pokemon[user].moves = {move}]
    ELSE st

track_move(st, user, move) ==
    IF user \in DOMAIN st.pokemon
    THEN [st EXCEPT !.pokemon[user].moves = @ \cup {move}]
    ELSE st

\* an ability tracker that keeps the value revealed first
track_ability_KeepFirst(st, id, ability) ==
    IF id \in DOMAIN st.pokemon /\ st.pokemon[id].ability = None
    THEN [st EXCEPT !.pokemon[id].ability = Some(ability)]
    ELSE st

track_ability(st, id, ability) ==
    IF id \in DOMAIN st.pokemon
    THEN [st EXCEPT !.pokemon[id].ability = Some(ability)]
    ELSE st

track_item(st, id, item) ==
    IF id \in DOMAIN st.pokemon
    THEN [st EXCEPT !.pokemon[id].item = Some(item)]
    ELSE st

\* an HP update that counts a death when the HP reported is 0
track_hp_ZeroIsDeath(st, id, hp, max_hp) ==
    IF id \in DOMAIN st.pokemon
    THEN [st EXCEPT !.pokemon[id].hp_current = Some(hp),
                    !.pokemon[id].hp_max = Some(max_hp),
                    !.pokemon[id].deaths = IF hp = 0 THEN @ + 1 ELSE @]
    ELSE st

track_hp(st, id, hp, max_hp) ==
    IF id \in DOMAIN st.pokemon
    THEN [st EXCEPT !.pokemon[id].hp_current = Some(hp),
                    !.pokemon[id].hp_max = Some(max_hp)]
    ELSE st

track_faint(st, id) ==
    IF id \in DOMAIN st.pokemon
    THEN [st EXCEPT !.pokemon[id].deaths = @ + 1]
    ELSE st

track_knockout(st, id) ==
    IF id \in DOMAIN st.pokemon
    THEN [st EXCEPT !.pokemon[id].knockouts = @ + 1]
    ELSE st

\* PokemonTracker defines no track_move_kill and PokemonData no move_kills:
\* the attribute lookup self.tracker.track_move_kill raises AttributeError
track_move_kill(st, id, move) == [st EXCEPT !.raised = "AttributeError"]

record_damage_dealt(st, attacker, damage) ==
    IF attacker \in DOMAIN st.pokemon
    THEN [st EXCEPT !.pokemon[attacker].damage_dealt = @ + damage]
    ELSE st

record_damage_taken(st, defender, damage) ==
    IF defender \in DOMAIN st.pokemon
    THEN [st EXCEPT !.pokemon[defender].damage_taken = @ + damage]
    ELSE st

track_damage(st, attacker, defender, damage) ==
    record_damage_taken(record_damage_dealt(st, attacker, damage), defender, damage)

TeamRecords(st, kept) == [i \in 1..Len(kept) |-> st.pokemon[kept[i]]]

\* get_team(player): the records of the ids on the player's list
get_team(st, player) ==
    TeamRecords(st, SelectSeq(Get(st.teams, player, << >>),
                              LAMBDA pid : pid \in DOMAIN st.pokemon))

\* knockouts / deaths as the pair <<numerator, denominator>>
get_kd_ratio(data) ==
    IF data.deaths = 0 THEN <<data.knockouts, 1>> ELSE <<data.knockouts, data.deaths>>

\* The iteration order of a set of str follows the strings' hashes, which the
\* interpreter salts with a seed drawn once per process: the order is fixed
\* within a process and differs from one process to another.  A seed is
\* modelled by the order it induces on the move names: HashOrder or its reverse.
HashSeeds == {0, 1}

HashOrder == <<Str("Thunderbolt"), Str("Flamethrower"), Str("Recover"), Str("Toxic"),
               Str("Tackle"), Str("Surf")>>

Reverse(s) == [i \in 1..Len(s) |-> s[Len(s) + 1 - i]]

\* list(data.moves)
ListOf(S, seed) ==
    SelectSeq(IF seed = 0 THEN HashOrder ELSE Reverse(HashOrder), LAMBDA m : m \in S)

SummaryOf(data) ==
    [name |-> data.name, species |-> data.species, level |-> data.level,
     moves |-> ListOf(data.moves, hash_seed), ability |-> data.ability, item |-> data.item,
     knockouts |-> data.knockouts, deaths |-> data.deaths,
     kd_ratio |-> get_kd_ratio(data),
     damage_dealt |-> data.damage_dealt, damage_taken |-> data.damage_taken]

get_summary(st) == [id \in DOMAIN st.pokemon |-> SummaryOf(st.pokemon[id])]

-----------------------------------------------------------------------------
(* battle_simulator.py: the parsers *)

MakeIdent(position, name) ==
    <<Some(Take(position, 2) \o <<":">> \o name), Some(Take(position, 2))>>

IdentFromParts(parts) == MakeIdent(Strip(parts[1]), Strip(parts[2]))

\* an identifier parser that splits on every colon: "ident.split(':')"
_parse_pokemon_ident_every_colon(ident) ==
    IF ~Contains(ident, ":") THEN <<None, None>>
    ELSE IdentFromParts(Split(ident, <<":">>))

\* returns <<Optional id, Optional player>>
_parse_pokemon_ident(ident) ==
    IF ~Contains(ident, ":") THEN <<None, None>>
    ELSE IdentFromParts(Split1(ident, <<":">>))

HpResult(exc, hp, max_hp, status) ==
    [exc |-> exc, hp |-> hp, max_hp |-> max_hp, status |-> status]

\* "current, max_hp = hp_part.split('/'); return int(current), int(max_hp), status"
ParseHpPair(cm, status) ==
    IF Len(cm) # 2 \/ ~IsInt(cm[1]) \/ ~IsInt(cm[2])
    THEN HpResult("ValueError", None, None, status)
    ELSE HpResult("none", Some(IntOf(cm[1])), Some(IntOf(cm[2])), status)

\* a parser that reports no maximum for '0'
ParseHpPart_ZeroNoMax(hp_part, status) ==
    IF hp_part = Str("0") THEN HpResult("none", Some(0), None, status)
    ELSE IF Contains(hp_part, "/") THEN ParseHpPair(Split(hp_part, <<"/">>), status)
    ELSE HpResult("none", None, None, status)

ParseHpPart(hp_part, status) ==
    IF hp_part = Str("0") THEN HpResult("none", Some(0), Some(0), status)
    ELSE IF Contains(hp_part, "/") THEN ParseHpPair(Split(hp_part, <<"/">>), status)
    ELSE HpResult("none", None, None, status)

ParseHpParts(parts) ==
    IF parts = << >> THEN HpResult("IndexError", None, None, None)
    ELSE ParseHpPart(parts[1], IF Len(parts) > 1 THEN Some(parts[2]) ELSE None)

\* returns [exc, hp, max_hp, status]; exc names the exception raised, if any
_parse_hp(hp_str) == ParseHpParts(SplitWs(hp_str))

\* the attacker looked up under the target's own side tag
Opponent_Same(player) == player

\* opponent = 'p1' if player == 'p2' else 'p2'
Opponent(player) == IF player = P2 THEN P1 ELSE P2

-----------------------------------------------------------------------------
(* battle_simulator.py: the handlers, st -> st *)

\* "if hp is not None and max_hp is not None: self.tracker.track_hp(...)" of
\* _handle_switch, h the result of _parse_hp
SwitchRecordHp(st, id, h) ==
    IF h.exc # "none" THEN [st EXCEPT !.raised = h.exc]
    ELSE IF h.hp # None /\ h.max_hp # None THEN track_hp(st, id, h.hp[1], h.max_hp[1])
    ELSE st

SwitchHp(st, id, hp_str) ==
    IF hp_str = << >> THEN st ELSE SwitchRecordHp(st, id, _parse_hp(hp_str))

\* a switch that also forgets the last move of the side that switches
SetActive_ClearsLastMove(st, player, id) ==
    [st EXCEPT !.active_pokemon = Put(st.active_pokemon, player, Some(id)),
               !.last_move = [k \in DOMAIN st.last_move \ {player} |-> st.last_move[k]]]

\* self.active_pokemon[player] = pokemon_id
SetActive(st, player, id) ==
    [st EXCEPT !.active_pokemon = Put(st.active_pokemon, player, Some(id))]

SwitchRegistered(st, id, player, hp_str) ==
    IF st.raised # "none" THEN st
    ELSE SwitchHp(SetActive(st, player, id), id, hp_str)

SwitchIdent(st, args, pp) ==
    IF pp[1] = None THEN st
    ELSE SwitchRegistered(
            register_pokemon(st, pp[2][1], args[1], Split(pp[1][1], <<":">>)[2], args[2]),
            pp[1][1], pp[2][1], IF Len(args) > 2 THEN args[3] ELSE << >>)

_handle_switch(st, args) ==
    IF Len(args) < 2 THEN st
    ELSE SwitchIdent(st, args, _parse_pokemon_ident(args[1]))

\* a move handler that does not record the last move
SetLastMove_Skip(st, player, id, move) == st

\* self.last_move[player] = {'pokemon': pokemon_id, 'move': move}
SetLastMove(st, player, id, move) ==
    [st EXCEPT !.last_move = Put(st.last_move, player, [pokemon |-> id, move |-> move])]

MoveIdent(st, move, pp) ==
    IF pp[1] = None THEN st
    ELSE SetLastMove(track_move(st, pp[1][1], move), pp[2][1], pp[1][1], move)

_handle_move(st, args) ==
    IF Len(args) < 2 THEN st
    ELSE MoveIdent(st, args[2], _parse_pokemon_ident(args[1]))

\* damage = old_hp - hp
DamageAmount(old_hp, hp) == old_hp - hp

\* the attacker looked up on the target's own side instead of the opposing side
AttributeDamage_OwnSide(st, id, player, old_hp, hp) ==
    IF old_hp = None THEN st
    ELSE IF player \in DOMAIN st.last_move
         THEN track_damage(st, st.last_move[player].pokemon, id,
                           DamageAmount(old_hp[1], hp))
         ELSE st

\* the attribution of _handle_damage (lines 238-244), after the HP update
AttributeDamage(st, id, player, old_hp, hp) ==
    IF old_hp = None THEN st
    ELSE IF Opponent(player) \in DOMAIN st.last_move
         THEN track_damage(st, st.last_move[Opponent(player)].pokemon, id,
                           DamageAmount(old_hp[1], hp))
         ELSE st

DamageParsed(st, id, player, old_hp, h) ==
    IF h.exc # "none" THEN [st EXCEPT !.raised = h.exc]
    ELSE IF h.hp # None /\ h.max_hp # None
         THEN AttributeDamage(track_hp(st, id, h.hp[1], h.max_hp[1]),
                              id, player, old_hp, h.hp[1])
         ELSE st

\* old_hp = get_pokemon(id).hp_current if get_pokemon(id) else None
OldHp(st, id) == IF id \in DOMAIN st.pokemon THEN st.pokemon[id].hp_current ELSE None

DamageIdent(st, hp_str, pp) ==
    IF pp[1] = None THEN st
    ELSE DamageParsed(st, pp[1][1], pp[2][1], OldHp(st, pp[1][1]), _parse_hp(hp_str))

_handle_damage(st, args) ==
    IF Len(args) < 2 THEN st
    ELSE DamageIdent(st, args[2], _parse_pokemon_ident(args[1]))

\* track_knockout moved out of the "if": the knockout is credited whatever the move
CreditMover_KnockoutAlways(st, lm) ==
    IF _is_attack_move(lm.move)
    THEN track_move_kill(track_knockout(st, lm.pokemon), lm.pokemon, lm.move)
    ELSE track_knockout(st, lm.pokemon)

\* "if self._is_attack_move(move): track_knockout; track_move_kill", lm the
\* opponent's last_move entry
CreditMover(st, lm) ==
    IF _is_attack_move(lm.move)
    THEN track_move_kill(track_knockout(st, lm.pokemon), lm.pokemon, lm.move)
    ELSE st

\* without a last move of the opposing side, the knockout goes to the opposing
\* side's active combatant
CreditFaint_ActiveFallback(st, player) ==
    IF Opponent(player) \in DOMAIN st.last_move
    THEN CreditMover(st, st.last_move[Opponent(player)])
    ELSE IF Get(st.active_pokemon, Opponent(player), None) # None
         THEN track_knockout(st, st.active_pokemon[Opponent(player)][1])
         ELSE st

\* the credit of _handle_faint (lines 254-263), after track_faint
CreditFaint(st, player) ==
    IF Opponent(player) \in DOMAIN st.last_move
    THEN CreditMover(st, st.last_move[Opponent(player)])
    ELSE st

FaintIdent(st, pp) ==
    IF pp[1] = None THEN st
    ELSE CreditFaint(track_faint(st, pp[1][1]), pp[2][1])

_handle_faint(st, args) ==
    IF Len(args) < 1 THEN st
    ELSE FaintIdent(st, _parse_pokemon_ident(args[1]))

AbilityIdent(st, ability, pokemon_id) ==
    IF pokemon_id = None THEN st ELSE track_ability(st, pokemon_id[1], ability)

_handle_ability(st, args) ==
    IF Len(args) < 2 THEN st
    ELSE AbilityIdent(st, args[2], _parse_pokemon_ident(args[1])[1])

ItemIdent(st, item, pokemon_id) ==
    IF pokemon_id = None THEN st ELSE track_item(st, pokemon_id[1], item)

_handle_item(st, args) ==
    IF Len(args) < 2 THEN st
    ELSE ItemIdent(st, args[2], _parse_pokemon_ident(args[1])[1])

\* an enditem handler that clears the revealed item of its target
_handle_enditem_clears(st, args) ==
    IF Len(args) < 1 \/ _parse_pokemon_ident(args[1])[1] = None THEN st
    ELSE IF _parse_pokemon_ident(args[1])[1][1] \in DOMAIN st.pokemon
         THEN [st EXCEPT !.pokemon[_parse_pokemon_ident(args[1])[1][1]].item = None]
         ELSE st

_handle_enditem(st, args) == st

\* a heal that books a reported loss of HP as damage taken
HealRecordHp_CountsLoss(st, id, h) ==
    IF h.exc # "none" THEN [st EXCEPT !.raised = h.exc]
    ELSE IF h.hp # None /\ h.max_hp # None
         THEN IF OldHp(st, id) # None /\ OldHp(st, id)[1] > h.hp[1]
              THEN track_hp(record_damage_taken(st, id, OldHp(st, id)[1] - h.hp[1]),
                            id, h.hp[1], h.max_hp[1])
              ELSE track_hp(st, id, h.hp[1], h.max_hp[1])
         ELSE st

HealRecordHp(st, id, h) ==
    IF h.exc # "none" THEN [st EXCEPT !.raised = h.exc]
    ELSE IF h.hp # None /\ h.max_hp # None THEN track_hp(st, id, h.hp[1], h.max_hp[1])
    ELSE st

HealIdent(st, hp_str, pokemon_id) ==
    IF pokemon_id = None THEN st
    ELSE HealRecordHp(st, pokemon_id[1], _parse_hp(hp_str))

_handle_heal(st, args) ==
    IF Len(args) < 2 THEN st
    ELSE HealIdent(st, args[2], _parse_pokemon_ident(args[1])[1])

\* the commands whose handlers do nothing (player, teamsize, gametype, gen, tier, poke)
_handle_pass(st, args) == st

\* the key under which _process_log_entry reads the command
DispatchKey == "type"

Dispatch(st, cmd_type, args) ==
    CASE cmd_type \in {Some(Str("player")), Some(Str("teamsize")), Some(Str("gametype")),
                       Some(Str("gen")), Some(Str("tier")), Some(Str("poke"))}
                                               -> _handle_pass(st, args)
      [] cmd_type \in {Some(Str("switch")), Some(Str("drag"))}
                                               -> _handle_switch(st, args)
      [] cmd_type = Some(Str("move"))          -> _handle_move(st, args)
      [] cmd_type = Some(<<"-", "damage">>)    -> _handle_damage(st, args)
      [] cmd_type = Some(Str("faint"))         -> _handle_faint(st, args)
      [] cmd_type = Some(<<"-", "ability">>)   -> _handle_ability(st, args)
      [] cmd_type = Some(<<"-", "item">>)      -> _handle_item(st, args)
      [] cmd_type = Some(<<"-", "enditem">>)   -> _handle_enditem(st, args)
      [] cmd_type = Some(<<"-", "heal">>)      -> _handle_heal(st, args)
      [] OTHER                                 -> st

\* cmd_type = entry.get('type'); args = entry.get('args', [])
_process_log_entry(st, e) ==
    Dispatch(st,
             IF DispatchKey \in DOMAIN e THEN Some(e[DispatchKey]) ELSE None,
             IF "args" \in DOMAIN e THEN e["args"] ELSE << >>)

-----------------------------------------------------------------------------
(* Inputs of the attribution engine: the entries a battle log is drawn from *)

Pikachu   == <<"p", "1", "a", ":", " ", "Pikachu">>
Charizard == <<"p", "2", "a", ":", " ", "Charizard">>
Eevee     == <<"p", "1", "b", ":", " ", "Eevee">>
Zubat     == <<"p", "3", "a", ":", " ", "Zubat">>

Thunderbolt  == Str("Thunderbolt")
Flamethrower == Str("Flamethrower")
Recover      == Str("Recover")
Toxic        == Str("Toxic")

Hp99  == <<"9", "/", "9">>
Hp59  == <<"5", "/", "9">>
Hp0   == <<"0", " ", "fnt">>

Ev(type, args) == [type |-> type, args |-> args]

SwitchEntries ==
    { Ev(Str("switch"), <<Pikachu, <<"Pikachu", ",", " ", "L", "5", "0">>, Hp99>>),
      Ev(Str("switch"), <<Charizard, <<"Charizard", ",", " ", "L", "5", "0">>, Hp99>>),
      Ev(Str("drag"),   <<Charizard, <<"Charizard", ",", " ", "L", "5", "0">>, Hp59>>),
      Ev(Str("switch"), <<Zubat, Str("Zubat")>>),
      Ev(Str("switch"), <<Eevee, Str("Eevee")>>) }

MoveEntries ==
    { Ev(Str("move"), <<Pikachu, Thunderbolt, Charizard>>),
      Ev(Str("move"), <<Pikachu, Recover, Pikachu>>),
      Ev(Str("move"), <<Charizard, Flamethrower, Pikachu>>),
      Ev(Str("move"), <<Charizard, Toxic, Pikachu>>),
      Ev(Str("move"), <<Eevee, Str("Tackle"), Charizard>>) }

DamageEntries ==
    { Ev(<<"-", "damage">>, <<Charizard, Hp0>>),
      Ev(<<"-", "damage">>, <<Charizard, Hp59, <<"[", "from", "]", " ", "psn">>>>),
      Ev(<<"-", "damage">>, <<Charizard, Hp99>>),
      Ev(<<"-", "damage">>, <<Pikachu, Hp59>>),
      Ev(<<"-", "damage">>, <<Eevee, Hp59>>),
      Ev(<<"-", "damage">>, <<Pikachu, << >>>>),
      Ev(<<"-", "damage">>, <<Pikachu, <<"a", "/", "b">>>>),
      Ev(<<"-", "damage">>, <<Charizard, Str("7")>>),
      Ev(<<"-", "heal">>,   <<Pikachu, Hp99>>) }

FaintEntries ==
    { Ev(Str("faint"), <<Charizard>>),
      Ev(Str("faint"), <<Pikachu>>),
      Ev(Str("faint"), <<Str("Pikachu")>>) }

OtherEntries ==
    { Ev(<<"-", "ability">>, <<Pikachu, Str("Static")>>),
      Ev(<<"-", "item">>, <<Charizard, Str("Leftovers")>>),
      Ev(<<"-", "enditem">>, <<Charizard, Str("Leftovers")>>),
      Ev(Str("player"), <<P1, Str("Player1")>>),
      Ev(Str("turn"), <<Str("1")>>),
      Ev(Str("win"), <<Str("Player1")>>) }

Entries == SwitchEntries \cup MoveEntries \cup DamageEntries \cup FaintEntries \cup OtherEntries

-----------------------------------------------------------------------------
(* The attribution engine as a state machine *)

\* BattleSimulator.__init__ and PokemonTracker.__init__
SimState0 ==
    [pokemon |-> << >>,
     teams |-> (P1 :> << >>) @@ (P2 :> << >>),
     active_pokemon |-> (P1 :> None) @@ (P2 :> None),
     last_move |-> << >>,
     raised |-> "none"]

SimState == [pokemon |-> pokemon, teams |-> teams, active_pokemon |-> active_pokemon,
             last_move |-> last_move, raised |-> raised]

Init ==
    /\ pokemon = SimState0.pokemon
    /\ teams = SimState0.teams
    /\ active_pokemon = SimState0.active_pokemon
    /\ last_move = SimState0.last_move
    /\ raised = "none"
    /\ entry = None
    /\ n = 0
    /\ pc = "process"
    /\ result = None
    /\ log_text = << >>
    /\ lines = << >>
    /\ idx = 0
    /\ battle_log = << >>
    /\ hash_seed \in HashSeeds

\* the objects after an entry is handled
Store(st, e) ==
    /\ pokemon' = st.pokemon
    /\ teams' = st.teams
    /\ active_pokemon' = st.active_pokemon
    /\ last_move' = st.last_move
    /\ raised' = st.raised
    /\ entry' = Some(e)
    /\ n' = n + 1

\* one iteration of "for entry in battle_log: self._process_log_entry(entry)"
Process(e) == Store(_process_log_entry(SimState, e), e)

ProcessEntry ==
    /\ pc = "process"
    /\ raised = "none"
    /\ n < MaxEvents
    /\ \E e \in Entries : Process(e)
    /\ UNCHANGED <<pc, result, log_text, lines, idx, battle_log, hash_seed>>

TeamNames(t) == [i \in 1..Len(t) |-> t[i].name]

\* the value of the return statement of process_battle_log
Summary(st) ==
    [pokemon |-> get_summary(st),
     teams |-> [p \in {P1, P2} |-> TeamNames(get_team(st, p))]]

Return ==
    /\ pc = "process"
    /\ raised = "none"
    /\ result' = Some(Summary(SimState))
    /\ pc' = "returned"
    /\ UNCHANGED <<pokemon, teams, active_pokemon, last_move, entry, n, raised,
                   log_text, lines, idx, battle_log, hash_seed>>

Next == ProcessEntry \/ Return

Spec == Init /\ [][Next]_vars

-----------------------------------------------------------------------------
(* replay_parser.py: the line tokenizer *)

ChatPrefixes == { <<"|", "c", "|">>, <<"|", "chat", "|">>,
                  <<"|", "html", "|">>, <<"|", "error", "|">> }

\* the prefix list without '|html|'
_should_skip_line_no_html(line) ==
    \/ \E prefix \in ChatPrefixes \ {<<"|", "html", "|">>} : StartsWith(line, prefix)
    \/ ~StartsWith(line, <<"|">>) /\ ~StartsWith(line, <<"-">>)

_should_skip_line(line) ==
    \/ \E prefix \in ChatPrefixes : StartsWith(line, prefix)
    \/ ~StartsWith(line, <<"|">>) /\ ~StartsWith(line, <<"-">>)

TerminalCommands == { Str("win"), Str("tie"), Str("forcewin") }

\* "command = parts[1].lstrip('-'); return command in terminal_commands"
TerminalParts(parts) ==
    IF Len(parts) < 2 THEN FALSE
    ELSE LStripSet(parts[2], {"-"}) \in TerminalCommands

\* the command compared without the lstrip('-')
_is_terminal_command_exact(line) ==
    StartsWith(line, <<"|">>) /\ Split(line, <<"|">>)[2] \in TerminalCommands

_is_terminal_command(line) ==
    IF ~StartsWith(line, <<"|">>) THEN FALSE
    ELSE TerminalParts(Split(line, <<"|">>))

\* the key under which _parse_log_line stores the command is 'command'
ParsedLine(parts, line) ==
    IF parts = << >> THEN None
    ELSE Some([command |-> parts[1], args |-> Tail(parts), raw |-> line])

\* a tokenizer without the test "if not line.startswith('|'): return None"
_parse_log_line_any(line) == ParsedLine(Tail(Split(line, <<"|">>)), line)

\* returns Optional event
_parse_log_line(line) ==
    IF ~StartsWith(line, <<"|">>) THEN None
    ELSE ParsedLine(Tail(Split(line, <<"|">>)), line)

-----------------------------------------------------------------------------
(* Inputs of the log processor: log texts of up to MaxLines lines *)

SwitchPikachuLine ==
    <<"|", "switch", "|">> \o Pikachu \o <<"|", "Pikachu", ",", " ", "L", "5", "0", "|">> \o Hp99
SwitchCharizardLine ==
    <<"|", "switch", "|">> \o Charizard \o <<"|", "Charizard", ",", " ", "L", "5", "0", "|">> \o Hp99
MoveLine   == <<"|", "move", "|">> \o Pikachu \o <<"|", "Thunderbolt", "|">> \o Charizard
FaintLine  == <<"|", "faint", "|">> \o Charizard
TurnLine   == <<"|", "turn", "|", "1">>
WinLine    == <<"|", "win", "|", "Player1">>
TieLine    == <<"|", "tie">>
ForceWinLine == <<" ", "|", "forcewin", "|", "Player1", "\r">>
DashWinLine  == <<"|", "-", "win", "|", "Player1">>
WinnerLine   == <<"|", "winner", "|", "Player1">>
ChatCLine    == <<"|", "c", "|", "Player1", "|", "hello">>
ChatLine     == <<"|", "chat", "|", "Player2", "|", "win">>
HtmlLine     == <<" ", "|", "html", "|", "<", "div", ">">>
ErrorLine    == <<"|", "error", "|", "some", " ", "error">>
BlankLine    == <<" ">>
TextLine     == <<"Some", " ", "text">>
DashLine     == <<"-", "damage", "|", "x">>
BarLine      == <<"|">>

ParserLines ==
    { SwitchPikachuLine, TurnLine, WinLine, TieLine, ForceWinLine, DashWinLine, WinnerLine,
      ChatCLine, ChatLine, HtmlLine, ErrorLine, BlankLine, TextLine, DashLine,
      BarLine }

PipeLines ==
    { SwitchPikachuLine, SwitchCharizardLine, MoveLine, FaintLine, WinLine,
      ChatCLine, BlankLine, DashLine }

\* '\n'.join(ls)
RECURSIVE Join(_)
Join(ls) ==
    IF ls = << >> THEN << >>
    ELSE IF Len(ls) = 1 THEN ls[1]
    ELSE ls[1] \o <<"\n">> \o Join(Tail(ls))

SeqsUpTo(S, k) == UNION { [1..m -> S] : m \in 0..k }

ParserLogs == { Join(ls) : ls \in SeqsUpTo(ParserLines, MaxLines) }
PipeLogs   == { Join(ls) : ls \in SeqsUpTo(PipeLines, MaxPipeLines) }

-----------------------------------------------------------------------------
(* The log processor as a state machine: parse_raw_log and _process_log *)

InitParser(logs) ==
    /\ pokemon = SimState0.pokemon
    /\ teams = SimState0.teams
    /\ active_pokemon = SimState0.active_pokemon
    /\ last_move = SimState0.last_move
    /\ raised = "none"
    /\ entry = None
    /\ n = 0
    /\ pc = "parse"
    /\ result = None
    /\ log_text \in logs
    /\ lines = << >>
    /\ idx = 0
    /\ battle_log = << >>
    /\ hash_seed \in HashSeeds

\* parse_raw_log up to the loop of _process_log: the log is reset and the text split
ParseRawLog ==
    /\ pc = "parse"
    /\ battle_log' = << >>
    /\ lines' = Split(log_text, <<"\n">>)
    /\ idx' = 1
    /\ pc' = "loop"
    /\ UNCHANGED <<simvars, log_text>>

\* the line the loop of _process_log is at: "line = line.strip()"
CurLine == Strip(lines[idx])

InLoop == pc = "loop" /\ idx <= Len(lines)

\* "if not line: continue"
SkipEmpty ==
    /\ InLoop
    /\ CurLine = << >>
    /\ idx' = idx + 1
    /\ UNCHANGED <<simvars, pc, log_text, lines, battle_log>>

\* "if self._should_skip_line(line): continue"
SkipFiltered ==
    /\ InLoop
    /\ CurLine # << >>
    /\ _should_skip_line(CurLine)
    /\ idx' = idx + 1
    /\ UNCHANGED <<simvars, pc, log_text, lines, battle_log>>

\* "if parsed: self.battle_log.append(parsed)"
AppendParsed(parsed) ==
    battle_log' = IF parsed # None THEN Append(battle_log, parsed[1]) ELSE battle_log

\* the terminal branch: the line is parsed and appended, then "break"
StopAtTerminal ==
    /\ InLoop
    /\ CurLine # << >>
    /\ ~_should_skip_line(CurLine)
    /\ _is_terminal_command(CurLine)
    /\ AppendParsed(_parse_log_line(CurLine))
    /\ pc' = "parsed"
    /\ UNCHANGED <<simvars, log_text, lines, idx>>

\* the last statements of the loop body, for a line that parses
EmitLine ==
    /\ InLoop
    /\ CurLine # << >>
    /\ ~_should_skip_line(CurLine)
    /\ ~_is_terminal_command(CurLine)
    /\ _parse_log_line(CurLine) # None
    /\ AppendParsed(_parse_log_line(CurLine))
    /\ idx' = idx + 1
    /\ UNCHANGED <<simvars, pc, log_text, lines>>

\* the last statements of the loop body, for a line _parse_log_line rejects
DropLine ==
    /\ InLoop
    /\ CurLine # << >>
    /\ ~_should_skip_line(CurLine)
    /\ ~_is_terminal_command(CurLine)
    /\ _parse_log_line(CurLine) = None
    /\ AppendParsed(_parse_log_line(CurLine))
    /\ idx' = idx + 1
    /\ UNCHANGED <<simvars, pc, log_text, lines>>

\* the loop runs out of lines and parse_raw_log returns
EndOfLog ==
    /\ pc = "loop"
    /\ idx > Len(lines)
    /\ pc' = "parsed"
    /\ UNCHANGED <<simvars, log_text, lines, idx, battle_log>>

ProcessLogStep == SkipEmpty \/ SkipFiltered \/ StopAtTerminal \/ EmitLine \/ DropLine \/ EndOfLog

InitLog == InitParser(ParserLogs)

NextParser == ParseRawLog \/ ProcessLogStep

SpecParser == InitLog /\ [][NextParser]_vars

\* parsed as a list of zero or one event
OptSeq(parsed) == IF parsed = None THEN << >> ELSE <<parsed[1]>>

\* _process_log as a function of the list of lines: the events it appends
RECURSIVE EventsOf(_)
RECURSIVE LineEvents(_, _)
LineEvents(line, rest) ==
    IF line = << >> \/ _should_skip_line(line) THEN EventsOf(rest)
    ELSE IF _is_terminal_command(line) THEN OptSeq(_parse_log_line(line))
    ELSE OptSeq(_parse_log_line(line)) \o EventsOf(rest)

EventsOf(ls) == IF ls = << >> THEN << >> ELSE LineEvents(Strip(Head(ls)), Tail(ls))

-----------------------------------------------------------------------------
(* The two stages in sequence:                                             *)
(*   result = parser.parse_raw_log(log)                                    *)
(*   simulator.process_battle_log(result['battle_log'])                    *)

InitPipeline == InitParser(PipeLogs)

\* one iteration of the loop of process_battle_log over the parsed log
ProcessLogged ==
    /\ pc = "parsed"
    /\ raised = "none"
    /\ n < Len(battle_log)
    /\ Process(battle_log[n + 1])
    /\ UNCHANGED <<pc, result, log_text, lines, idx, battle_log, hash_seed>>

ReturnLogged ==
    /\ pc = "parsed"
    /\ raised = "none"
    /\ n = Len(battle_log)
    /\ result' = Some(Summary(SimState))
    /\ pc' = "returned"
    /\ UNCHANGED <<pokemon, teams, active_pokemon, last_move, entry, n, raised,
                   log_text, lines, idx, battle_log, hash_seed>>

NextPipeline == ParseRawLog \/ ProcessLogStep \/ ProcessLogged \/ ReturnLogged

SpecPipeline == InitPipeline /\ [][NextPipeline]_vars

-----------------------------------------------------------------------------
(* Vocabulary of the properties *)

\* the step handles one entry (the entry is entry'[1])
IsStep == pc = "process" /\ raised = "none" /\ n' = n + 1 /\ entry' # None

Cmd(e) == Get(e, DispatchKey, << >>)

\* side tag and identifier an entry's first argument resolves to
HasIdent(e) == Len(e.args) >= 1 /\ _parse_pokemon_ident(e.args[1])[1] # None
IdentOf(e)  == _parse_pokemon_ident(e.args[1])[1][1]
SideOf(e)   == _parse_pokemon_ident(e.args[1])[2][1]

\* e is a faint event and the side opposing its target has a recorded last
\* move, used by a registered combatant
FaintWithMover(e, lm, pk) ==
    /\ Cmd(e) = Str("faint")
    /\ HasIdent(e)
    /\ Opponent(SideOf(e)) \in DOMAIN lm
    /\ lm[Opponent(SideOf(e))].pokemon \in DOMAIN pk

MoverOf(e, lm) == lm[Opponent(SideOf(e))].pokemon
MoveOf(e, lm)  == lm[Opponent(SideOf(e))].move

\* the move-kill count of a record for a move; a record without the mapping counts 0
MoveKillCount(data, m) ==
    IF "move_kills" \in DOMAIN data THEN Get(data["move_kills"], m, 0) ELSE 0

\* the move-kill mapping of a record, empty when the record has none
MoveKillsOf(data) == IF "move_kills" \in DOMAIN data THEN data["move_kills"] ELSE << >>

RECURSIVE SumOver(_, _)
SumOver(f, S) ==
    IF S = {} THEN 0 ELSE LET x == CHOOSE y \in S : TRUE IN f[x] + SumOver(f, S \ {x})

TotalDealt == SumOver([id \in DOMAIN pokemon |-> pokemon[id].damage_dealt], DOMAIN pokemon)
TotalTaken == SumOver([id \in DOMAIN pokemon |-> pokemon[id].damage_taken], DOMAIN pokemon)

-----------------------------------------------------------------------------
(* Properties of the attribution engine *)

\* C1: a faint event handled while the opposing side's last move is a
\* direct-attack move M of registered combatant A raises A's knockouts by
\* exactly 1 and A's moveKills[M] by exactly 1, and processing continues
\* (no exception ends the run).
C1_FaintCreditsAttack ==
    [][(IsStep /\ FaintWithMover(entry'[1], last_move, pokemon)
               /\ MoveOf(entry'[1], last_move) \notin NON_ATTACK_MOVES)
        => LET A == MoverOf(entry'[1], last_move)
               M == MoveOf(entry'[1], last_move)
           IN /\ raised' = "none"
              /\ A \in DOMAIN pokemon'
              /\ pokemon'[A].knockouts = pokemon[A].knockouts + 1
              /\ MoveKillCount(pokemon'[A], M) = MoveKillCount(pokemon[A], M) + 1]_vars

\* C5 (as claimed): a faint event handled while the opposing side's last move
\* is a non-attack move of registered combatant A raises A's knockouts by
\* exactly 1 and leaves A's moveKills unchanged.
C5_NonAttackStillKnockout ==
    [][(IsStep /\ FaintWithMover(entry'[1], last_move, pokemon)
               /\ MoveOf(entry'[1], last_move) \in NON_ATTACK_MOVES)
        => LET A == MoverOf(entry'[1], last_move)
           IN /\ pokemon'[A].knockouts = pokemon[A].knockouts + 1
              /\ MoveKillsOf(pokemon'[A]) = MoveKillsOf(pokemon[A])]_vars

\* C5 (amended): in that case A's knockouts are left unchanged (no knockout
\* credit is given) and A's moveKills is unchanged.
C5_NonAttackNoKnockout ==
    [][(IsStep /\ FaintWithMover(entry'[1], last_move, pokemon)
               /\ MoveOf(entry'[1], last_move) \in NON_ATTACK_MOVES)
        => LET A == MoverOf(entry'[1], last_move)
           IN /\ pokemon'[A].knockouts = pokemon[A].knockouts
              /\ MoveKillsOf(pokemon'[A]) = MoveKillsOf(pokemon[A])]_vars

\* a faint of a registered target has been handled while the opposing side's
\* last move was Recover, a non-attack move of a registered combatant
C5_Witness ==
    /\ entry # None
    /\ raised = "none"
    /\ FaintWithMover(entry[1], last_move, pokemon)
    /\ MoveOf(entry[1], last_move) = Recover
    /\ IdentOf(entry[1]) \in DOMAIN pokemon
    /\ pokemon[IdentOf(entry[1])].deaths >= 1

\* C6: a faint event handled while the opposing side's last move is a
\* non-attack move gives its user no knockout credit: no combatant's knockouts
\* change (a user with 0 knockouts keeps 0), the user's whole record, and so
\* any move-kill count, is unchanged, and no exception is raised.
C6_NonAttackNoCredit ==
    [][(IsStep /\ Cmd(entry'[1]) = Str("faint") /\ HasIdent(entry'[1])
               /\ Opponent(SideOf(entry'[1])) \in DOMAIN last_move
               /\ MoveOf(entry'[1], last_move) \in NON_ATTACK_MOVES)
        => LET A == MoverOf(entry'[1], last_move)
           IN /\ raised' = "none"
              /\ DOMAIN pokemon' = DOMAIN pokemon
              /\ \A id \in DOMAIN pokemon : pokemon'[id].knockouts = pokemon[id].knockouts
              /\ A \in DOMAIN pokemon => pokemon'[A] = pokemon[A]]_vars

\* the scenario of the tests: the target has fainted at 0 HP, the opposing
\* side's last move is a non-attack move and its user still has no knockout
C6_Witness ==
    /\ entry # None
    /\ FaintWithMover(entry[1], last_move, pokemon)
    /\ MoveOf(entry[1], last_move) \in NON_ATTACK_MOVES
    /\ pokemon[MoverOf(entry[1], last_move)].knockouts = 0
    /\ pokemon[MoverOf(entry[1], last_move)].moves # {}
    /\ IdentOf(entry[1]) \in DOMAIN pokemon
    /\ pokemon[IdentOf(entry[1])].hp_current = Some(0)

\* C7: handling any sequence of entries never raises an exception
\* (process_battle_log always reaches its return statement).
C7_NeverRaises == raised = "none"

\* C8: every combatant's damageDealt and damageTaken are >= 0 and never
\* decrease from one entry to the next.
C8_DamageNonNegativeMonotone ==
    /\ [](\A id \in DOMAIN pokemon :
             pokemon[id].damage_dealt >= 0 /\ pokemon[id].damage_taken >= 0)
    /\ [][\A id \in DOMAIN pokemon :
             /\ pokemon'[id].damage_dealt >= pokemon[id].damage_dealt
             /\ pokemon'[id].damage_taken >= pokemon[id].damage_taken]_vars

\* C9: the sum of damageDealt over all registered combatants equals the sum
\* of damageTaken over all registered combatants.
C9_DamageConservation == TotalDealt = TotalTaken

-----------------------------------------------------------------------------
(* Properties of the log processor *)

\* the command field of a protocol line: field 0 after the leading '|'
IsProtocolLine(line) == line # << >> /\ Head(line) = "|"
CommandField(line) == Split(line, <<"|">>)[2]

\* a terminal line as the specification defines it: command win, tie or forcewin
IsTerminalLine(line) ==
    IsProtocolLine(line) /\ CommandField(line) \in {Str("win"), Str("tie"), Str("forcewin")}

\* a line whose command is win, tie or forcewin once its leading '-' are removed
IsDashedTerminalLine(line) ==
    IsProtocolLine(line)
    /\ LStripSet(CommandField(line), {"-"}) \in {Str("win"), Str("tie"), Str("forcewin")}

\* a line that begins with one of the reserved prefixes
IsReservedLine(line) ==
    \/ Take(line, 3) = <<"|", "c", "|">>
    \/ Take(line, 3) = <<"|", "chat", "|">>
    \/ Take(line, 3) = <<"|", "html", "|">>
    \/ Take(line, 3) = <<"|", "error", "|">>

FirstTerminal ==
    IF \E i \in 1..Len(lines) : IsTerminalLine(Strip(lines[i]))
    THEN CHOOSE i \in 1..Len(lines) :
            /\ IsTerminalLine(Strip(lines[i]))
            /\ \A j \in 1..(i - 1) : ~IsTerminalLine(Strip(lines[j]))
    ELSE 0

FirstDashedTerminal ==
    IF \E i \in 1..Len(lines) : IsDashedTerminalLine(Strip(lines[i]))
    THEN CHOOSE i \in 1..Len(lines) :
            /\ IsDashedTerminalLine(Strip(lines[i]))
            /\ \A j \in 1..(i - 1) : ~IsDashedTerminalLine(Strip(lines[j]))
    ELSE 0

\* the output ends at line k: the loop did not go past line k, every event comes
\* from one of the first k lines, and the event of line k is the last element
\* and appears exactly once
EndsAtLine(k) ==
    /\ idx <= k
    /\ Len(battle_log) <= k
    /\ \A i \in 1..Len(battle_log) : \E j \in 1..k : battle_log[i].raw = Strip(lines[j])
    /\ battle_log # << >>
    /\ battle_log[Len(battle_log)].raw = Strip(lines[k])
    /\ Cardinality({i \in 1..Len(battle_log) : battle_log[i].raw = Strip(lines[k])}) = 1

\* C2 (as claimed): the output holds no event of a line after the first
\* terminal line (command win, tie or forcewin), and the event of that line is
\* the last element of the output and appears exactly once.
C2_EndsAtFirstTerminal ==
    (pc = "parsed" /\ FirstTerminal # 0) => EndsAtLine(FirstTerminal)

\* C2 (amended): the same, for the first line whose command is win, tie or
\* forcewin after its leading '-' characters are removed ('|-win|...' stops the
\* processor as '|win|...' does).
C2_EndsAtFirstDashedTerminal ==
    (pc = "parsed" /\ FirstDashedTerminal # 0) => EndsAtLine(FirstDashedTerminal)

\* a log was processed whose terminal line has an emitted line before it and a
\* valid protocol line after it
C2_Witness ==
    /\ pc = "parsed"
    /\ FirstDashedTerminal > 1
    /\ FirstDashedTerminal < Len(lines)
    /\ Len(battle_log) >= 2
    /\ lines[FirstDashedTerminal + 1] \in {TurnLine, SwitchPikachuLine}

\* the lines of the log that do not begin with a reserved prefix
NoReserved(ls) == SelectSeq(ls, LAMBDA l : ~IsReservedLine(Strip(l)))

\* C3: no line beginning with |c|, |chat|, |html| or |error| produces an
\* event, and the events of the other lines are those the log yields with the
\* reserved lines removed.
C3_ReservedLinesDropped ==
    pc = "parsed" =>
        /\ \A i \in 1..Len(battle_log) : ~IsReservedLine(battle_log[i].raw)
        /\ battle_log = EventsOf(NoReserved(lines))

\* a reserved line stood between two lines that both produced an event
C3_Witness ==
    /\ pc = "parsed"
    /\ Len(lines) = 3
    /\ IsReservedLine(Strip(lines[2]))
    /\ Len(battle_log) = 2
    /\ battle_log[1].raw = Strip(lines[1])
    /\ battle_log[2].raw = Strip(lines[3])

-----------------------------------------------------------------------------
(* Properties of the two stages in sequence *)

\* the command of an event as the tokenizer stored it
StoredCommand(e) == IF "command" \in DOMAIN e THEN e["command"] ELSE << >>

IsSwitchEvent(e) ==
    /\ StoredCommand(e) \in {Str("switch"), Str("drag")}
    /\ Len(e.args) >= 2
    /\ _parse_pokemon_ident(e.args[1])[1] # None

\* C4: the events parse_raw_log returns carry their command under the key
\* process_battle_log dispatches on, so that after the two stages every
\* combatant with a switch event in the log is in the summary and on its
\* side's team list.
C4_PipelineRegistersSwitches ==
    pc = "returned" =>
        \A i \in 1..Len(battle_log) :
            IsSwitchEvent(battle_log[i]) =>
                 /\ DispatchKey \in DOMAIN battle_log[i]
                 /\ IdentOf(battle_log[i]) \in DOMAIN result[1].pokemon
                 /\ \E k \in 1..Len(result[1].teams[SideOf(battle_log[i])]) :
                       result[1].teams[SideOf(battle_log[i])][k]
                           = Split(IdentOf(battle_log[i]), <<":">>)[2]

-----------------------------------------------------------------------------
(* Further properties of the attribution engine *)

\* C11: kills are counted per faint and per move name.  Every faint event
\* handled while the opposing side's last move is an attack move M of
\* registered combatant A leaves the run going (so that a second such faint
\* can be handled), raises A's knockouts by 1 and A's moveKills[M] by 1 and
\* leaves A's count for every other move name as it was: two such faints give
\* knockouts = 2 with moveKills[M] = 2 for one move, and {M1: 1, M2: 1} for
\* two different moves.
C11_KillsCountedPerMove ==
    [][(IsStep /\ FaintWithMover(entry'[1], last_move, pokemon)
               /\ MoveOf(entry'[1], last_move) \notin NON_ATTACK_MOVES)
        => LET A == MoverOf(entry'[1], last_move)
               M == MoveOf(entry'[1], last_move)
           IN /\ raised' = "none"
              /\ A \in DOMAIN pokemon'
              /\ pokemon'[A].knockouts = pokemon[A].knockouts + 1
              /\ DOMAIN MoveKillsOf(pokemon'[A]) = DOMAIN MoveKillsOf(pokemon[A]) \cup {M}
              /\ \A m \in DOMAIN MoveKillsOf(pokemon'[A]) :
                    MoveKillCount(pokemon'[A], m)
                        = MoveKillCount(pokemon[A], m) + (IF m = M THEN 1 ELSE 0)]_vars

-----------------------------------------------------------------------------
(* Further properties of the log processor *)

\* the number of '|' delimiters of a line
Delimiters(line) == Cardinality({k \in 1..Len(line) : line[k] = "|"})

\* the fields of a protocol line after its command
FieldsAfterCommand(line) == SubSeq(Split(line, <<"|">>), 3, Len(Split(line, <<"|">>)))

\* C12: every event of the output carries the trimmed source line under
\* 'raw', the command (field 0 after the leading '|') under 'type' and the
\* remaining fields, in order, under 'args': a line with n delimiters yields
\* n - 1 arguments.
C12_EventFields ==
    \A i \in 1..Len(battle_log) :
        /\ "raw" \in DOMAIN battle_log[i]
        /\ \E j \in 1..Len(lines) : battle_log[i]["raw"] = Strip(lines[j])
        /\ "args" \in DOMAIN battle_log[i]
        /\ battle_log[i]["args"] = FieldsAfterCommand(battle_log[i]["raw"])
        /\ Len(battle_log[i]["args"]) = Delimiters(battle_log[i]["raw"]) - 1
        /\ "type" \in DOMAIN battle_log[i]
        /\ battle_log[i]["type"] = CommandField(battle_log[i]["raw"])

-----------------------------------------------------------------------------
(* Properties of the summary *)

SummaryKeys ==
    {"name", "species", "level", "moves", "ability", "item", "knockouts", "deaths",
     "kd_ratio", "damage_dealt", "damage_taken"}

\* C13: the summary returned after processing has an entry for every
\* registered combatant, and each entry holds name, species, level, moves,
\* ability, item, knockouts, deaths, K/D ratio, damage dealt and damage taken
\* together with a move-to-kill-count mapping under move_kills, which is empty
\* for a combatant credited with no knockout.
C13_SummaryHasMoveKills ==
    result # None =>
        /\ DOMAIN result[1].pokemon = DOMAIN pokemon
        /\ \A id \in DOMAIN result[1].pokemon :
              /\ SummaryKeys \subseteq DOMAIN result[1].pokemon[id]
              /\ "move_kills" \in DOMAIN result[1].pokemon[id]
              /\ result[1].pokemon[id]["knockouts"] = 0
                    => result[1].pokemon[id]["move_kills"] = << >>

-----------------------------------------------------------------------------
(* The core run twice in one process on the same list of entries:          *)
(*   first  = BattleSimulator().process_battle_log(battle_log)             *)
(*   second = BattleSimulator().process_battle_log(battle_log)             *)

MaxRerun == 4

RerunEntries ==
    { Ev(Str("switch"), <<Pikachu, <<"Pikachu", ",", " ", "L", "5", "0">>, Hp99>>),
      Ev(Str("switch"), <<Charizard, <<"Charizard", ",", " ", "L", "5", "0">>, Hp99>>),
      Ev(Str("move"), <<Pikachu, Thunderbolt, Charizard>>),
      Ev(Str("move"), <<Pikachu, Recover, Pikachu>>),
      Ev(<<"-", "damage">>, <<Charizard, Hp59>>),
      Ev(Str("faint"), <<Charizard>>),
      Ev(<<"-", "item">>, <<Charizard, Str("Leftovers")>>) }

RerunLogs == SeqsUpTo(RerunEntries, MaxRerun)

InitRerun ==
    /\ pokemon = SimState0.pokemon
    /\ teams = SimState0.teams
    /\ active_pokemon = SimState0.active_pokemon
    /\ last_move = SimState0.last_move
    /\ raised = "none"
    /\ entry = None
    /\ n = 0
    /\ pc = "parsed"
    /\ result = None
    /\ log_text = << >>
    /\ lines = << >>
    /\ idx = 0
    /\ battle_log \in RerunLogs
    /\ hash_seed \in HashSeeds

\* a constructor that leaves last_move as the first run left it
Rerun_KeepsLastMove ==
    /\ pc = "returned"
    /\ pokemon' = SimState0.pokemon
    /\ teams' = SimState0.teams
    /\ active_pokemon' = SimState0.active_pokemon
    /\ n' = 0
    /\ pc' = "rerun"
    /\ UNCHANGED <<last_move, entry, raised, result, log_text, lines, idx, battle_log,
                   hash_seed>>

\* BattleSimulator() for the second run: __init__ makes a new PokemonTracker
\* (pokemon = {}, teams = {'p1': [], 'p2': []}), and new active_pokemon and
\* last_move dictionaries
Rerun ==
    /\ pc = "returned"
    /\ pokemon' = SimState0.pokemon
    /\ teams' = SimState0.teams
    /\ active_pokemon' = SimState0.active_pokemon
    /\ last_move' = SimState0.last_move
    /\ n' = 0
    /\ pc' = "rerun"
    /\ UNCHANGED <<entry, raised, result, log_text, lines, idx, battle_log, hash_seed>>

\* one iteration of the loop of the second process_battle_log
ProcessAgain ==
    /\ pc = "rerun"
    /\ raised = "none"
    /\ n < Len(battle_log)
    /\ Process(battle_log[n + 1])
    /\ UNCHANGED <<pc, result, log_text, lines, idx, battle_log, hash_seed>>

\* the return statement of the second process_battle_log
ReturnAgain ==
    /\ pc = "rerun"
    /\ raised = "none"
    /\ n = Len(battle_log)
    /\ result' = Some(Summary(SimState))
    /\ pc' = "done"
    /\ UNCHANGED <<pokemon, teams, active_pokemon, last_move, entry, n, raised,
                   log_text, lines, idx, battle_log, hash_seed>>

NextRerun == ProcessLogged \/ ReturnLogged \/ Rerun \/ ProcessAgain \/ ReturnAgain

SpecRerun == InitRerun /\ [][NextRerun]_vars

-----------------------------------------------------------------------------
(* Properties of the registry *)

\* the side tag an identifier starts with ("p1" of "p1:Pikachu")
SideTag(id) == Take(id, 2)

\* the identifiers on a team list
OnTeam(t) == {t[k] : k \in 1..Len(t)}

\* the step handles a switch or drag event of a resolvable identifier
IsSwitchStep ==
    /\ IsStep
    /\ Cmd(entry'[1]) \in {Str("switch"), Str("drag")}
    /\ Len(entry'[1].args) >= 2
    /\ HasIdent(entry'[1])

\* C15: in every state each team list is free of duplicates and holds exactly
\* the registered identifiers whose side tag is its side, so that every
\* registered identifier is on exactly one list; a list changes only by the
\* identifier of a switch or drag event being appended at its first such
\* event, which makes the order of a list the order of first registration.
C15_TeamLists ==
    /\ [](/\ \A side \in DOMAIN teams :
               /\ Cardinality(OnTeam(teams[side])) = Len(teams[side])
               /\ OnTeam(teams[side]) = {id \in DOMAIN pokemon : SideTag(id) = side}
          /\ \A id \in DOMAIN pokemon :
               Cardinality({side \in DOMAIN teams : id \in OnTeam(teams[side])}) = 1)
    /\ [][/\ DOMAIN teams \subseteq DOMAIN teams'
          /\ \A side \in DOMAIN teams :
               \/ teams'[side] = teams[side]
               \/ /\ IsSwitchStep
                  /\ SideOf(entry'[1]) = side
                  /\ IdentOf(entry'[1]) \notin OnTeam(teams[side])
                  /\ teams'[side] = Append(teams[side], IdentOf(entry'[1]))
          /\ IsSwitchStep =>
               /\ SideOf(entry'[1]) \in DOMAIN teams'
               /\ IdentOf(entry'[1]) \in OnTeam(teams'[SideOf(entry'[1])])]_vars

-----------------------------------------------------------------------------
(* Properties of the terminal test of the log processor *)

\* the loop of _process_log handles a line that is neither empty nor filtered
\* by stopping (break) or by going on to the next line
StopsHere == pc' = "parsed" /\ idx' = idx
GoesOn == pc' = "loop" /\ idx' = idx + 1

\* C16 (as claimed): the loop stops at a line if and only if the line is a
\* protocol line whose command is exactly win, tie or forcewin; at any other
\* line, '|-win|...' included, it goes on to the next line.
C16_StopsIffExactTerminal ==
    [][InLoop => /\ IsTerminalLine(CurLine) => StopsHere
                 /\ ~IsTerminalLine(CurLine) => GoesOn]_vars

\* C16 (amended): the loop stops at a line if and only if the line is a
\* protocol line whose command, with its leading '-' characters removed, is
\* win, tie or forcewin; at any other line it goes on to the next line.
C16_StopsIffDashedTerminal ==
    [][InLoop => /\ IsDashedTerminalLine(CurLine) => StopsHere
                 /\ ~IsDashedTerminalLine(CurLine) => GoesOn]_vars

\* the loop went past '|winner|...', whose event was emitted, and stopped at
\* '|-win|...' with a line left after it
C16_Witness ==
    /\ pc = "parsed"
    /\ Len(lines) = 3
    /\ idx = 2
    /\ lines[1] = WinnerLine
    /\ lines[2] = DashWinLine
    /\ Len(battle_log) = 2
    /\ battle_log[1].raw = WinnerLine

-----------------------------------------------------------------------------
(* Properties of damage attribution *)

\* the first whitespace-separated word of an HP string, << >> if there is none
HpWord(s) == IF SplitWs(s) = << >> THEN << >> ELSE SplitWs(s)[1]

\* the word has the shape <int>/<int>
IsHpPair(w) ==
    /\ Len(Split(w, <<"/">>)) = 2
    /\ IsInt(Split(w, <<"/">>)[1])
    /\ IsInt(Split(w, <<"/">>)[2])

\* the HP string has one of the shapes '0[ tag]' and '<int>/<int>[ tag]'
WellFormedHp(s) == HpWord(s) = Str("0") \/ IsHpPair(HpWord(s))

\* the current HP a well-formed HP string states
HpValue(s) == IF HpWord(s) = Str("0") THEN 0 ELSE IntOf(Split(HpWord(s), <<"/">>)[1])

\* the step handles a -damage event with a well-formed HP string whose target
\* is registered
IsDamageStep ==
    /\ IsStep
    /\ Cmd(entry'[1]) = <<"-", "damage">>
    /\ Len(entry'[1].args) >= 2
    /\ HasIdent(entry'[1])
    /\ IdentOf(entry'[1]) \in DOMAIN pokemon
    /\ WellFormedHp(entry'[1].args[2])

\* the damage counters of every combatant but those in S are as they were
CountersKept(S) ==
    \A id \in DOMAIN pokemon \ S :
        /\ pokemon'[id].damage_dealt = pokemon[id].damage_dealt
        /\ pokemon'[id].damage_taken = pokemon[id].damage_taken

\* the step credits amount d to attacker A and to target T, and to nobody else
Credits(A, T, d) ==
    /\ pokemon'[A].damage_dealt = pokemon[A].damage_dealt + d
    /\ pokemon'[A].damage_taken = pokemon[A].damage_taken
    /\ pokemon'[T].damage_taken = pokemon[T].damage_taken + d
    /\ pokemon'[T].damage_dealt = pokemon[T].damage_dealt
    /\ CountersKept({A, T})

\* C17: a -damage event on a registered target with a well-formed HP string
\* sets the target's HP to the new value.  If the target's previous HP is
\* known and the opposing side has a last move by a registered combatant A,
\* A's damageDealt and the target's damageTaken both change by oldHp - newHp,
\* whatever further arguments ('[from] ...') the event carries, and no other
\* counter changes; if the previous HP is unknown no counter changes.
C17_DamageCreditsLastMover ==
    [][IsDamageStep
        => LET T == IdentOf(entry'[1])
               opp == Opponent(SideOf(entry'[1]))
               new == HpValue(entry'[1].args[2])
           IN /\ raised' = "none"
              /\ DOMAIN pokemon' = DOMAIN pokemon
              /\ pokemon'[T].hp_current = Some(new)
              /\ (/\ pokemon[T].hp_current # None
                  /\ opp \in DOMAIN last_move
                  /\ last_move[opp].pokemon \in DOMAIN pokemon)
                    => Credits(last_move[opp].pokemon, T, pokemon[T].hp_current[1] - new)
              /\ pokemon[T].hp_current = None => CountersKept({})]_vars

\* a -damage event carrying a '[from] ...' argument took the registered target
\* from 9 to 5 HP, and the 4 points went to the opposing side's last mover
C17_Witness ==
    /\ entry # None
    /\ raised = "none"
    /\ Cmd(entry[1]) = <<"-", "damage">>
    /\ Len(entry[1].args) = 3
    /\ IdentOf(entry[1]) \in DOMAIN pokemon
    /\ pokemon[IdentOf(entry[1])].hp_current = Some(5)
    /\ pokemon[IdentOf(entry[1])].damage_taken = 4
    /\ Opponent(SideOf(entry[1])) \in DOMAIN last_move
    /\ last_move[Opponent(SideOf(entry[1]))].pokemon \in DOMAIN pokemon
    /\ pokemon[last_move[Opponent(SideOf(entry[1]))].pokemon].damage_dealt = 4

-----------------------------------------------------------------------------
(* Properties of the last-move state *)

\* the step handles a move event (actor and move name) with a resolvable actor
IsMoveStep ==
    /\ IsStep
    /\ Cmd(entry'[1]) = Str("move")
    /\ Len(entry'[1].args) >= 2
    /\ HasIdent(entry'[1])

\* C18: lastMove is empty before any entry is handled; a move event with a
\* resolvable actor of side S sets lastMove[S] to (actor, move) and leaves the
\* other sides' entries alone; no other event (switch, drag, -damage, -heal,
\* faint, -ability, -item or any other command) changes or clears lastMove.
\* So lastMove[S] is absent until side S moves and is afterwards the actor and
\* move of S's most recent move event, also after that actor was switched out
\* or has fainted.
C18_LastMoveOnlyByMove ==
    /\ [](n = 0 => last_move = << >>)
    /\ [][IF IsMoveStep
          THEN /\ DOMAIN last_move' = DOMAIN last_move \cup {SideOf(entry'[1])}
               /\ last_move'[SideOf(entry'[1])]
                     = [pokemon |-> IdentOf(entry'[1]), move |-> entry'[1].args[2]]
               /\ \A S \in DOMAIN last_move \ {SideOf(entry'[1])} :
                     last_move'[S] = last_move[S]
          ELSE last_move' = last_move]_vars

\* Pikachu moved and was then switched out for Eevee; the -damage event on the
\* opposing Charizard handled afterwards was credited to Pikachu
C18_Witness ==
    /\ entry # None
    /\ raised = "none"
    /\ Cmd(entry[1]) = <<"-", "damage">>
    /\ SideOf(entry[1]) = P2
    /\ P1 \in DOMAIN last_move
    /\ last_move[P1].pokemon \in DOMAIN pokemon
    /\ active_pokemon[P1] # None
    /\ active_pokemon[P1] # Some(last_move[P1].pokemon)
    /\ pokemon[last_move[P1].pokemon].damage_dealt = 4
    /\ pokemon[IdentOf(entry[1])].damage_taken = 4

-----------------------------------------------------------------------------
(* Properties of the handling of HP strings *)

\* the HP string of the entry a step handles: the second argument of -damage
\* and -heal, the third argument of switch and drag (<< >> when there is none)
HpStringOf(e) ==
    IF Cmd(e) \in {<<"-", "damage">>, <<"-", "heal">>} /\ Len(e.args) >= 2 THEN Some(e.args[2])
    ELSE IF Cmd(e) \in {Str("switch"), Str("drag")} /\ Len(e.args) >= 3 THEN Some(e.args[3])
    ELSE None

\* the step handles an event of a resolvable target whose HP string has none
\* of the two shapes
IsBadHpStep ==
    /\ IsStep
    /\ HasIdent(entry'[1])
    /\ HpStringOf(entry'[1]) # None
    /\ ~WellFormedHp(HpStringOf(entry'[1])[1])

\* C19: a -damage, -heal or switch event whose HP string has none of the
\* shapes '0[ tag]' and '<int>/<int>[ tag]' raises no exception (the entries
\* after it are still handled), leaves the target's hpCurrent and hpMax as
\* they were and changes no damage counter.
C19_BadHpSkipped ==
    [][IsBadHpStep
        => /\ raised' = "none"
           /\ IdentOf(entry'[1]) \in DOMAIN pokemon
                 => /\ pokemon'[IdentOf(entry'[1])].hp_current
                          = pokemon[IdentOf(entry'[1])].hp_current
                    /\ pokemon'[IdentOf(entry'[1])].hp_max
                          = pokemon[IdentOf(entry'[1])].hp_max
           /\ CountersKept({})]_vars

-----------------------------------------------------------------------------
(* Properties of events without an opposing last move *)

\* the step handles a faint event, or a -damage event with a well-formed HP
\* string, of a resolvable target while the opposing side has no last move
IsUncreditedStep ==
    /\ IsStep
    /\ HasIdent(entry'[1])
    /\ \/ Cmd(entry'[1]) = Str("faint")
       \/ /\ Cmd(entry'[1]) = <<"-", "damage">>
          /\ Len(entry'[1].args) >= 2
          /\ WellFormedHp(entry'[1].args[2])
    /\ Opponent(SideOf(entry'[1])) \notin DOMAIN last_move

\* C20: a -damage or faint event handled while the side opposing its target
\* has no last move changes no combatant's knockouts, moveKills, damageDealt
\* or damageTaken and raises no exception; a registered target still has its
\* HP set to the new value (-damage) or its deaths raised by 1 (faint).
C20_NoMoverNoCredit ==
    [][IsUncreditedStep
        => /\ raised' = "none"
           /\ DOMAIN pokemon' = DOMAIN pokemon
           /\ CountersKept({})
           /\ \A id \in DOMAIN pokemon :
                 /\ pokemon'[id].knockouts = pokemon[id].knockouts
                 /\ MoveKillsOf(pokemon'[id]) = MoveKillsOf(pokemon[id])
           /\ IdentOf(entry'[1]) \in DOMAIN pokemon
                 => IF Cmd(entry'[1]) = Str("faint")
                    THEN pokemon'[IdentOf(entry'[1])].deaths
                            = pokemon[IdentOf(entry'[1])].deaths + 1
                    ELSE pokemon'[IdentOf(entry'[1])].hp_current
                            = Some(HpValue(entry'[1].args[2]))]_vars

\* a registered combatant fainted while an opposing combatant was active and
\* the opposing side had made no move: the death is counted, nobody has a
\* knockout
C20_Witness ==
    /\ entry # None
    /\ raised = "none"
    /\ Cmd(entry[1]) = Str("faint")
    /\ HasIdent(entry[1])
    /\ IdentOf(entry[1]) \in DOMAIN pokemon
    /\ pokemon[IdentOf(entry[1])].deaths = 1
    /\ Opponent(SideOf(entry[1])) \notin DOMAIN last_move
    /\ active_pokemon[Opponent(SideOf(entry[1]))] # None
    /\ \A id \in DOMAIN pokemon : pokemon[id].knockouts = 0

-----------------------------------------------------------------------------
(* The registry called directly: a PokemonTracker and a sequence of calls  *)
(* of its operations, with identifiers that are or are not registered      *)

MaxCalls == 3

PikachuId   == <<"p", "1", ":", "Pikachu">>
CharizardId == <<"p", "2", ":", "Charizard">>
EeveeId     == <<"p", "1", ":", "Eevee">>

RegistryIds == {PikachuId, CharizardId, EeveeId}

\* the call made: the operation, its identifier arguments, its other arguments
Call(op, ids, rest) == [op |-> op, ids |-> ids, rest |-> rest]

InitRegistry ==
    /\ pokemon = SimState0.pokemon
    /\ teams = SimState0.teams
    /\ active_pokemon = SimState0.active_pokemon
    /\ last_move = SimState0.last_move
    /\ raised = "none"
    /\ entry = None
    /\ n = 0
    /\ pc = "registry"
    /\ result = None
    /\ log_text = << >>
    /\ lines = << >>
    /\ idx = 0
    /\ battle_log = << >>
    /\ hash_seed \in HashSeeds

CanCall == pc = "registry" /\ raised = "none" /\ n < MaxCalls

\* the tracker after a call
StoreCall(st, c) ==
    /\ pokemon' = st.pokemon
    /\ teams' = st.teams
    /\ raised' = st.raised
    /\ entry' = Some(c)
    /\ n' = n + 1
    /\ UNCHANGED <<active_pokemon, last_move, pc, result, log_text, lines, idx,
                   battle_log, hash_seed>>

CallRegister ==
    /\ CanCall
    /\ \E a \in {<<P1, Pikachu, Str("Pikachu")>>, <<P2, Charizard, Str("Charizard")>>} :
          StoreCall(register_pokemon(SimState, a[1], a[2], a[3], << >>),
                    Call("register_pokemon", <<a[1] \o <<":">> \o a[3]>>, << >>))

CallTrackMove ==
    /\ CanCall
    /\ \E id \in RegistryIds :
          StoreCall(track_move(SimState, id, Thunderbolt),
                    Call("track_move", <<id>>, <<Thunderbolt>>))

CallTrackAbility ==
    /\ CanCall
    /\ \E id \in RegistryIds :
          StoreCall(track_ability(SimState, id, Str("Static")),
                    Call("track_ability", <<id>>, <<Str("Static")>>))

CallTrackItem ==
    /\ CanCall
    /\ \E id \in RegistryIds :
          StoreCall(track_item(SimState, id, Str("Leftovers")),
                    Call("track_item", <<id>>, <<Str("Leftovers")>>))

CallTrackHp ==
    /\ CanCall
    /\ \E id \in RegistryIds :
          StoreCall(track_hp(SimState, id, 5, 9), Call("track_hp", <<id>>, <<5, 9>>))

CallTrackFaint ==
    /\ CanCall
    /\ \E id \in RegistryIds :
          StoreCall(track_faint(SimState, id), Call("track_faint", <<id>>, << >>))

CallTrackKnockout ==
    /\ CanCall
    /\ \E id \in RegistryIds :
          StoreCall(track_knockout(SimState, id), Call("track_knockout", <<id>>, << >>))

CallTrackMoveKill ==
    /\ CanCall
    /\ \E id \in RegistryIds :
          StoreCall(track_move_kill(SimState, id, Thunderbolt),
                    Call("track_move_kill", <<id>>, <<Thunderbolt>>))

CallTrackDamage ==
    /\ CanCall
    /\ \E attacker \in RegistryIds, defender \in RegistryIds :
          StoreCall(track_damage(SimState, attacker, defender, 4),
                    Call("track_damage", <<attacker, defender>>, <<4>>))

NextRegistry ==
    \/ CallRegister \/ CallTrackMove \/ CallTrackAbility \/ CallTrackItem \/ CallTrackHp
    \/ CallTrackFaint \/ CallTrackKnockout \/ CallTrackMoveKill \/ CallTrackDamage

SpecRegistry == InitRegistry /\ [][NextRegistry]_vars

\* the step is a call of a recording operation with an identifier that is not
\* registered
IsUnknownIdCall ==
    /\ pc = "registry"
    /\ n' = n + 1
    /\ entry'[1].op # "register_pokemon"
    /\ \E k \in 1..Len(entry'[1].ids) : entry'[1].ids[k] \notin DOMAIN pokemon

\* C21: a registry operation (record move, ability, item, HP, faint, knockout,
\* move kill, damage) called with an identifier that is not registered leaves
\* all records and both team lists as they were and raises no error.
C21_UnknownIdNoOp ==
    [][IsUnknownIdCall
        => /\ pokemon' = pokemon
           /\ teams' = teams
           /\ raised' = "none"]_vars

-----------------------------------------------------------------------------
(* The attribution engine on entries with other identifier shapes, repeated *)
(* switches, HP reports of 0 and commands that no handler serves            *)

MaxFrameEvents == 4

TypeNull      == <<"p", "1", "a", ":", " ", "Type", ":", " ", "Null">>
TypeFull      == <<"p", "1", "b", ":", " ", "Type", ":", " ", "Full">>
PikachuSpaced == <<"p", "1", "a", " ", ":", " ", " ", "Pikachu", " ">>
NoColon       == Str("Pikachu")

\* HP strings: '0' without a status tag and a pair with one
Hp0Plain == Str("0")
Hp59Psn  == Hp59 \o <<" ", "psn">>

FrameEntries ==
    { Ev(Str("switch"), <<Pikachu, <<"Pikachu", ",", " ", "L", "5", "0">>, Hp99>>),
      Ev(Str("drag"), <<Pikachu, <<"Raichu", ",", " ", "L", "6", "0", ",", " ", "M">>, Hp59>>),
      Ev(Str("switch"), <<Charizard, <<"Charizard", ",", " ", "L", "5", "0">>, Hp0Plain>>),
      Ev(Str("switch"), <<TypeNull, <<"Type", ":", " ", "Null">>, Hp99>>),
      Ev(Str("switch"), <<TypeFull, Str("Silvally"), Hp59>>),
      Ev(Str("switch"), <<NoColon, Str("Pikachu"), Hp99>>),
      Ev(Str("move"), <<Pikachu, Thunderbolt, Charizard>>),
      Ev(Str("move"), <<PikachuSpaced, Recover>>),
      Ev(Str("move"), <<NoColon, Thunderbolt>>),
      Ev(Str("move"), <<Charizard, Flamethrower, Pikachu>>),
      Ev(<<"-", "heal">>, <<Pikachu, Hp59Psn>>),
      Ev(<<"-", "heal">>, <<Pikachu, Hp0>>),
      Ev(<<"-", "damage">>, <<Pikachu, Hp0>>),
      Ev(<<"-", "damage">>, <<TypeNull, Hp59>>),
      Ev(Str("faint"), <<Pikachu>>),
      Ev(<<"-", "item">>, <<Pikachu, Str("Leftovers")>>),
      Ev(<<"-", "enditem">>, <<Pikachu, Str("Leftovers")>>),
      Ev(<<"-", "ability">>, <<NoColon, Str("Static")>>),
      Ev(<<"-", "ability">>, <<Pikachu, Str("Static")>>),
      Ev(<<"-", "ability">>, <<Pikachu, <<"Lightning", " ", "Rod">>>>),
      Ev(<<"-", "item">>, <<Pikachu, <<"Light", " ", "Ball">>>>),
      Ev(<<"-", "status">>, <<Pikachu, Str("psn")>>),
      Ev(<< >>, << >>),
      Ev(Str("tie"), << >>) }

\* one iteration of the loop of process_battle_log, the entry one of FrameEntries
ProcessFrameEntry ==
    /\ pc = "process"
    /\ raised = "none"
    /\ n < MaxFrameEvents
    /\ \E e \in FrameEntries : Process(e)
    /\ UNCHANGED <<pc, result, log_text, lines, idx, battle_log, hash_seed>>

NextFrame == ProcessFrameEntry \/ Return

SpecFrame == Init /\ [][NextFrame]_vars

-----------------------------------------------------------------------------
(* Properties of repeated switches *)

\* a record without its HP fields
WithoutHp(data) == [data EXCEPT !.hp_current = None, !.hp_max = None]

\* C22: a switch or drag event for an identifier that is already registered
\* creates no record, leaves both team lists and every record unchanged but
\* for the HP of the identifier's record; and every switch or drag event of a
\* resolvable identifier leaves a record registered under that identifier
\* (side + ':' + nickname), so that two different nicknames of one side have
\* two distinct records.
C22_SwitchKeepsRecord ==
    [][IsSwitchStep
        => /\ IdentOf(entry'[1]) \in DOMAIN pokemon
                 => /\ DOMAIN pokemon' = DOMAIN pokemon
                    /\ teams' = teams
                    /\ \A id \in DOMAIN pokemon :
                          IF id = IdentOf(entry'[1])
                          THEN WithoutHp(pokemon'[id]) = WithoutHp(pokemon[id])
                          ELSE pokemon'[id] = pokemon[id]
           /\ IdentOf(entry'[1]) \in DOMAIN pokemon']_vars

-----------------------------------------------------------------------------
(* Properties of -heal *)

\* the maximum HP a well-formed HP string states
HpMaxValue(s) == IF HpWord(s) = Str("0") THEN 0 ELSE IntOf(Split(HpWord(s), <<"/">>)[2])

IsHealStep ==
    /\ IsStep
    /\ Cmd(entry'[1]) = <<"-", "heal">>
    /\ Len(entry'[1].args) >= 2

\* the step's event names a registered target and carries a well-formed HP string
HealApplies ==
    /\ HasIdent(entry'[1])
    /\ IdentOf(entry'[1]) \in DOMAIN pokemon
    /\ WellFormedHp(entry'[1].args[2])

\* C23: a -heal event changes nothing but the HP of its target: the set of
\* records, the team lists, the active slots and lastMove are unchanged, every
\* record is unchanged but for hpCurrent/hpMax of the target, and these change
\* (to the reported values, lower than before or not) only when the target is
\* registered and the HP string parses.
C23_HealOnlyHp ==
    [][IsHealStep
        => /\ DOMAIN pokemon' = DOMAIN pokemon
           /\ teams' = teams
           /\ active_pokemon' = active_pokemon
           /\ last_move' = last_move
           /\ \A id \in DOMAIN pokemon :
                 IF HealApplies /\ id = IdentOf(entry'[1])
                 THEN /\ WithoutHp(pokemon'[id]) = WithoutHp(pokemon[id])
                      /\ pokemon'[id].hp_current = Some(HpValue(entry'[1].args[2]))
                      /\ pokemon'[id].hp_max = Some(HpMaxValue(entry'[1].args[2]))
                 ELSE pokemon'[id] = pokemon[id]]_vars

\* a -heal event reported 0 HP for a registered combatant, whose HP had been 9
\* or 5: the HP is 0 and no counter has moved
C23_Witness ==
    /\ entry # None
    /\ raised = "none"
    /\ Cmd(entry[1]) = <<"-", "heal">>
    /\ HasIdent(entry[1])
    /\ IdentOf(entry[1]) \in DOMAIN pokemon
    /\ pokemon[IdentOf(entry[1])].hp_current = Some(0)
    /\ pokemon[IdentOf(entry[1])].damage_taken = 0
    /\ pokemon[IdentOf(entry[1])].deaths = 0

-----------------------------------------------------------------------------
(* Properties of the commands without effect *)

\* the commands that have a handler with an effect
ServedCommands ==
    { Str("switch"), Str("drag"), Str("move"), Str("faint"), <<"-", "damage">>,
      <<"-", "heal">>, <<"-", "ability">>, <<"-", "item">> }

-----------------------------------------------------------------------------
(* Properties of the death counter *)

\* the step handles a faint event naming identifier id
IsFaintOf(id) ==
    /\ Cmd(entry'[1]) = Str("faint")
    /\ HasIdent(entry'[1])
    /\ IdentOf(entry'[1]) = id

\* C25: on every event the deaths of each registered combatant X go up by
\* exactly 1 if the event is a faint naming X and stay as they are otherwise,
\* and a combatant is registered with 0 deaths; an event other than faint, in
\* particular a -damage, -heal or switch reporting 0 HP, changes no knockouts.
C25_DeathsOnlyByFaint ==
    [][IsStep
        => /\ \A id \in DOMAIN pokemon :
                 pokemon'[id].deaths
                    = pokemon[id].deaths + (IF IsFaintOf(id) THEN 1 ELSE 0)
           /\ \A id \in DOMAIN pokemon' \ DOMAIN pokemon : pokemon'[id].deaths = 0
           /\ Cmd(entry'[1]) # Str("faint")
                 => \A id \in DOMAIN pokemon :
                       pokemon'[id].knockouts = pokemon[id].knockouts]_vars

\* a combatant whose HP had been reported as 0 has then fainted: it has one
\* death, the one of the faint event
C25_Witness ==
    /\ entry # None
    /\ Cmd(entry[1]) = Str("faint")
    /\ HasIdent(entry[1])
    /\ IdentOf(entry[1]) \in DOMAIN pokemon
    /\ pokemon[IdentOf(entry[1])].hp_current = Some(0)
    /\ pokemon[IdentOf(entry[1])].deaths = 1

-----------------------------------------------------------------------------
(* Monotonicity of the revealed moves and of the counters *)

\* the moves of combatant id after a step that handles entry e
MovesAfter(id, e, old) ==
    IF /\ Cmd(e) = Str("move")
       /\ Len(e.args) >= 2
       /\ HasIdent(e)
       /\ IdentOf(e) = id
    THEN old \cup {e.args[2]}
    ELSE old

\* C26: on every step each registered combatant stays registered, its set of
\* revealed moves after the step contains the set before it, and its knockouts
\* and deaths do not decrease; a move event adds its move name to the set of
\* the actor it names and changes no other combatant's set, and no other event
\* changes any set.
C26_MovesAndCountersGrow ==
    [][IsStep
        => \A id \in DOMAIN pokemon :
              /\ id \in DOMAIN pokemon'
              /\ pokemon[id].moves \subseteq pokemon'[id].moves
              /\ pokemon'[id].moves = MovesAfter(id, entry'[1], pokemon[id].moves)
              /\ pokemon'[id].knockouts >= pokemon[id].knockouts
              /\ pokemon'[id].deaths >= pokemon[id].deaths]_vars

\* a second move of a combatant has just been added to its first
C26_Witness ==
    /\ entry # None
    /\ Cmd(entry[1]) = Str("move")
    /\ HasIdent(entry[1])
    /\ IdentOf(entry[1]) \in DOMAIN pokemon
    /\ Cardinality(pokemon[IdentOf(entry[1])].moves) = 2
    /\ entry[1].args[2] \in pokemon[IdentOf(entry[1])].moves

-----------------------------------------------------------------------------
(* The events of the log processor as a subsequence of the lines *)

\* the first k lines of the text, each stripped as the loop strips it
StrippedLines(k) == [i \in 1..k |-> Strip(lines[i])]

\* of the first k lines, those that are not blank and begin with '|'
ProtocolLines(k) == SelectSeq(StrippedLines(k), IsProtocolLine)

\* the number of lines the loop has taken up so far
LinesTaken ==
    IF pc = "loop" THEN idx - 1
    ELSE IF pc = "parsed" /\ idx <= Len(lines) THEN idx
    ELSE Len(lines)

\* a is b with some of its elements left out
RECURSIVE IsSubseq(_, _)
IsSubseq(a, b) ==
    IF a = << >> THEN TRUE
    ELSE IF b = << >> THEN FALSE
    ELSE IF Head(a) = Head(b) THEN IsSubseq(Tail(a), Tail(b))
    ELSE IsSubseq(a, Tail(b))

Raws(log) == [i \in 1..Len(log) |-> log[i].raw]

\* C27: at every point of the loop the lines of the events emitted so far are,
\* in order and one event per line, a subsequence of the non-blank lines
\* beginning with '|' among the lines taken up so far: a blank line and a line
\* that does not begin with '|' (also one beginning with '-') give no event.
C27_EventsSubsequenceOfLines ==
    IsSubseq(Raws(battle_log), ProtocolLines(LinesTaken))

\* a text of three lines whose second is blank or without a leading '|' has
\* given the events of its first and third line, in that order
C27_Witness ==
    /\ pc = "parsed"
    /\ Len(lines) = 3
    /\ ~IsProtocolLine(Strip(lines[2]))
    /\ Strip(lines[1]) # Strip(lines[3])
    /\ Raws(battle_log) = <<Strip(lines[1]), Strip(lines[3])>>

-----------------------------------------------------------------------------
(* Move classification called at any point of processing: the calls of      *)
(* test_attack_move_classification, between the entries of a battle log     *)

MaxClassifyEvents == 2

\* the names test_attack_move_classification asserts to be attacks
AttackNames ==
    { Str("Earthquake"), Str("Thunderbolt"), <<"Hydro", " ", "Pump">>,
      Str("Flamethrower"), <<"Ice", " ", "Beam">>, <<"Dragon", " ", "Claw">> }

\* the names it asserts not to be attacks
NonAttackNames ==
    { <<"Stealth", " ", "Rock">>, Str("Toxic"), Str("Recover"),
      <<"Swords", " ", "Dance">>, <<"Will", "-", "O", "-", "Wisp">>,
      <<"Thunder", " ", "Wave">>, <<"Leech", " ", "Seed">>, Str("Spikes") }

\* non-attack names in another case or spelling
AlteredNames ==
    { Str("toxic"), Str("TOXIC"), <<"Toxic", " ">>, <<" ", "Recover">>,
      <<"Stealth", "Rock">>, <<"Will", "-", "o", "-", "Wisp">> }

MoveNames == AttackNames \cup NonAttackNames \cup AlteredNames

\* one iteration of the loop of process_battle_log, the entry one of FrameEntries
ProcessClassifyEntry ==
    /\ pc = "process"
    /\ raised = "none"
    /\ n < MaxClassifyEvents
    /\ \E e \in FrameEntries : Process(e)
    /\ UNCHANGED <<pc, result, log_text, lines, idx, battle_log, hash_seed>>

\* a call simulator._is_attack_move(move); result holds the argument and the
\* value returned
CallIsAttackMove ==
    /\ pc = "process"
    /\ \E move \in MoveNames :
          result' = Some([move |-> move, attack |-> _is_attack_move(move)])
    /\ UNCHANGED <<pokemon, teams, active_pokemon, last_move, entry, n, raised,
                   pc, log_text, lines, idx, battle_log, hash_seed>>

NextClassify == ProcessClassifyEntry \/ CallIsAttackMove

SpecClassify == Init /\ [][NextClassify]_vars

\* C28: whatever has been processed before the call, a move is classified as
\* an attack iff its name is not, exactly as written, in the fixed non-attack
\* set: Earthquake, Thunderbolt, Hydro Pump, Flamethrower, Ice Beam and Dragon
\* Claw are attacks; Stealth Rock, Toxic, Recover, Swords Dance, Will-O-Wisp,
\* Thunder Wave, Leech Seed and Spikes are not; a non-attack name in another
\* case or spelling ('toxic', 'Toxic ') is an attack.
C28_ExactMembership ==
    result # None
        => /\ result[1].attack = (result[1].move \notin NON_ATTACK_MOVES)
           /\ result[1].move \in AttackNames => result[1].attack
           /\ result[1].move \in NonAttackNames => ~result[1].attack
           /\ result[1].move \in AlteredNames => result[1].attack

\* after a switch and a move event have been handled, 'Toxic ' with a trailing
\* blank has been classified as an attack
C28_Witness ==
    /\ n = MaxClassifyEvents
    /\ \E id \in DOMAIN pokemon : pokemon[id].moves # {}
    /\ result = Some([move |-> <<"Toxic", " ">>, attack |-> TRUE])

-----------------------------------------------------------------------------
(* Identifier parsing on its own: _parse_pokemon_ident applied to every     *)
(* argument of up to MaxIdentLen characters                                 *)

MaxIdentLen == 6

IdentChars == {"p", "1", "a", ":", " "}

IdentArgs == SeqsUpTo(IdentChars, MaxIdentLen)

\* the one call self._parse_pokemon_ident(ident) of a behaviour; result holds
\* the argument and the pair returned
CallParseIdent ==
    /\ pc = "process"
    /\ result = None
    /\ \E ident \in IdentArgs :
          result' = Some([ident |-> ident, value |-> _parse_pokemon_ident(ident)])
    /\ UNCHANGED <<pokemon, teams, active_pokemon, last_move, entry, n, raised,
                   pc, log_text, lines, idx, battle_log, hash_seed>>

NextIdent == CallParseIdent

SpecIdent == Init /\ [][NextIdent]_vars

\* the position of the first colon of s
FirstColon(s) == CHOOSE k \in 1..Len(s) : s[k] = ":" /\ \A j \in 1..(k - 1) : s[j] # ":"

BeforeColon(s) == SubSeq(s, 1, FirstColon(s) - 1)
AfterColon(s)  == SubSeq(s, FirstColon(s) + 1, Len(s))

\* the pair the claim describes for an argument with a colon, side the side tag
Described(side, s) == <<Some(side \o <<":">> \o Strip(AfterColon(s))), Some(side)>>

\* C29 (as claimed): the argument is split on its first colon only; the side
\* is the first two characters of the part before the colon, the nickname the
\* whole trimmed remainder, further colons included, and the identifier is
\* side + ':' + nickname; an argument without a colon gives no identifier and
\* no side.
C29_SideIsFirstTwoOfPrefix ==
    result # None
        => IF Contains(result[1].ident, ":")
           THEN result[1].value
                   = Described(Take(BeforeColon(result[1].ident), 2), result[1].ident)
           ELSE result[1].value = <<None, None>>

\* C29 (amended): as claimed, except that the part before the colon is trimmed
\* before its first two characters are taken as the side.
C29_SideIsFirstTwoOfTrimmedPrefix ==
    result # None
        => IF Contains(result[1].ident, ":")
           THEN result[1].value
                   = Described(Take(Strip(BeforeColon(result[1].ident)), 2), result[1].ident)
           ELSE result[1].value = <<None, None>>

\* 'p1:a:a' has been parsed to identifier 'p1:a:a' of side 'p1'
C29_Witness ==
    /\ result # None
    /\ result[1].ident = <<"p", "1", ":", "a", ":", "a">>
    /\ result[1].value = <<Some(<<"p", "1", ":", "a", ":", "a">>), Some(P1)>>

-----------------------------------------------------------------------------
(* Properties of HP string parsing *)

\* the step handles an event of a resolvable target that carries a well-formed
\* HP string
IsHpStep ==
    /\ IsStep
    /\ HasIdent(entry'[1])
    /\ HpStringOf(entry'[1]) # None
    /\ WellFormedHp(HpStringOf(entry'[1])[1])

\* the step is a -damage reporting '0', with or without a tag, on a registered
\* target whose HP is known
IsZeroDamageStep ==
    /\ IsHpStep
    /\ Cmd(entry'[1]) = <<"-", "damage">>
    /\ HpWord(entry'[1].args[2]) = Str("0")
    /\ IdentOf(entry'[1]) \in DOMAIN pokemon
    /\ pokemon[IdentOf(entry'[1])].hp_current # None

\* the amount h is attributed for target T: to T, and to the last mover of the
\* opposing side if that side has moved and its mover is registered
Attributes(T, opp, h) ==
    IF opp \notin DOMAIN last_move THEN CountersKept({})
    ELSE /\ pokemon'[T].damage_taken = pokemon[T].damage_taken + h
         /\ last_move[opp].pokemon \in DOMAIN pokemon
               => Credits(last_move[opp].pokemon, T, h)

\* C30: an HP string '0', with or without a status tag, is taken as current 0
\* and maximum 0, and '<a>/<b>', with or without a tag, as current a and
\* maximum b: an event carrying such a string sets the HP of its registered
\* target to these values.  A -damage event reporting '0 fnt' on a registered
\* target with known HP h sets its HP to 0/0, and the damage attributed for it
\* is exactly h.
C30_HpParsedAndZeroDamage ==
    [][IsHpStep
        => LET T == IdentOf(entry'[1])
               s == HpStringOf(entry'[1])[1]
           IN /\ raised' = "none"
              /\ T \in DOMAIN pokemon'
                    => /\ pokemon'[T].hp_current = Some(HpValue(s))
                       /\ pokemon'[T].hp_max = Some(HpMaxValue(s))
              /\ IsZeroDamageStep
                    => /\ pokemon'[T].hp_current = Some(0)
                       /\ pokemon'[T].hp_max = Some(0)
                       /\ Attributes(T, Opponent(SideOf(entry'[1])),
                                     pokemon[T].hp_current[1])]_vars

\* a -damage reporting '0 fnt' has taken a target from 9 HP to 0/0, and 9 is
\* attributed to it and to the opposing side's last mover, which had been
\* switched in with the HP string '0'
C30_Witness ==
    /\ entry # None
    /\ raised = "none"
    /\ Cmd(entry[1]) = <<"-", "damage">>
    /\ entry[1].args[2] = Hp0
    /\ IdentOf(entry[1]) \in DOMAIN pokemon
    /\ pokemon[IdentOf(entry[1])].hp_current = Some(0)
    /\ pokemon[IdentOf(entry[1])].hp_max = Some(0)
    /\ pokemon[IdentOf(entry[1])].damage_taken = 9
    /\ Opponent(SideOf(entry[1])) \in DOMAIN last_move
    /\ last_move[Opponent(SideOf(entry[1]))].pokemon \in DOMAIN pokemon
    /\ pokemon[last_move[Opponent(SideOf(entry[1]))].pokemon].damage_dealt = 9
    /\ pokemon[last_move[Opponent(SideOf(entry[1]))].pokemon].hp_max = Some(0)

-----------------------------------------------------------------------------
(* Properties of the revealed ability and item *)

\* the step handles an event of command c that names identifier id and carries
\* a value
Reveals(c, id) ==
    /\ Cmd(entry'[1]) = c
    /\ Len(entry'[1].args) >= 2
    /\ HasIdent(entry'[1])
    /\ IdentOf(entry'[1]) = id

\* a record without its ability and item
WithoutReveal(data) == [data EXCEPT !.ability = None, !.item = None]

\* C31: a combatant is registered without ability and item; on every event the
\* ability of a registered combatant becomes the value of the event if it is
\* an -ability naming the combatant and stays as it is otherwise, and likewise
\* its item with -item, so that each is the value of the most recent such event
\* or absent; an -ability or -item event changes nothing else: no other field
\* or counter of any combatant, no team list, active slot or lastMove.
C31_LatestAbilityAndItem ==
    [][IsStep
        => /\ \A id \in DOMAIN pokemon' \ DOMAIN pokemon :
                 pokemon'[id].ability = None /\ pokemon'[id].item = None
           /\ \A id \in DOMAIN pokemon :
                 /\ pokemon'[id].ability
                       = IF Reveals(<<"-", "ability">>, id)
                         THEN Some(entry'[1].args[2]) ELSE pokemon[id].ability
                 /\ pokemon'[id].item
                       = IF Reveals(<<"-", "item">>, id)
                         THEN Some(entry'[1].args[2]) ELSE pokemon[id].item
           /\ Cmd(entry'[1]) \in {<<"-", "ability">>, <<"-", "item">>}
                 => /\ DOMAIN pokemon' = DOMAIN pokemon
                    /\ \A id \in DOMAIN pokemon :
                          WithoutReveal(pokemon'[id]) = WithoutReveal(pokemon[id])
                    /\ teams' = teams
                    /\ active_pokemon' = active_pokemon
                    /\ last_move' = last_move
                    /\ raised' = "none"]_vars

\* a second -ability event has replaced the ability of a combatant whose item
\* is revealed too
C31_Witness ==
    /\ entry # None
    /\ n >= 4
    /\ Cmd(entry[1]) = <<"-", "ability">>
    /\ HasIdent(entry[1])
    /\ IdentOf(entry[1]) \in DOMAIN pokemon
    /\ entry[1].args[2] = <<"Lightning", " ", "Rod">>
    /\ pokemon[IdentOf(entry[1])].ability = Some(<<"Lightning", " ", "Rod">>)
    /\ pokemon[IdentOf(entry[1])].item = Some(<<"Light", " ", "Ball">>)

-----------------------------------------------------------------------------
(* The core run on a list of entries and, from a fresh simulator, on the    *)
(* same list with two neighbouring entries exchanged:                       *)
(*   BattleSimulator().process_battle_log(battle_log)                       *)
(*   BattleSimulator().process_battle_log(swapped)                          *)
(* battle_log is the first list and idx the position of the exchange; each  *)
(* run ends at its return statement or at the exception it raises.          *)

MaxOrder == 4

OrderEntries ==
    { Ev(Str("switch"), <<Pikachu, <<"Pikachu", ",", " ", "L", "5", "0">>, Hp99>>),
      Ev(Str("switch"), <<Charizard, <<"Charizard", ",", " ", "L", "5", "0">>, Hp99>>),
      Ev(Str("move"), <<Pikachu, Thunderbolt, Charizard>>),
      Ev(Str("move"), <<Pikachu, Recover, Pikachu>>),
      Ev(<<"-", "damage">>, <<Charizard, Hp59>>),
      Ev(Str("faint"), <<Charizard>>) }

OrderLogs == { l \in SeqsUpTo(OrderEntries, MaxOrder) : Len(l) >= 2 }

\* the list with the entries at k and k + 1 exchanged
Swapped(log, k) ==
    [i \in 1..Len(log) |-> IF i = k THEN log[k + 1] ELSE IF i = k + 1 THEN log[k] ELSE log[i]]

\* the counters a run has left on the combatants
Attribution(st) ==
    [id \in DOMAIN st.pokemon |->
        [knockouts |-> st.pokemon[id].knockouts,
         damage_dealt |-> st.pokemon[id].damage_dealt,
         damage_taken |-> st.pokemon[id].damage_taken]]

InitOrder ==
    /\ pokemon = SimState0.pokemon
    /\ teams = SimState0.teams
    /\ active_pokemon = SimState0.active_pokemon
    /\ last_move = SimState0.last_move
    /\ raised = "none"
    /\ entry = None
    /\ n = 0
    /\ pc = "parsed"
    /\ result = None
    /\ log_text = << >>
    /\ lines = << >>
    /\ battle_log \in OrderLogs
    /\ idx \in 1..(Len(battle_log) - 1)
    /\ hash_seed \in HashSeeds

\* the first run is over; result keeps its counters, and BattleSimulator()
\* makes the objects of the second run
EndFirst ==
    /\ pc = "parsed"
    /\ raised # "none" \/ n = Len(battle_log)
    /\ result' = Some(Attribution(SimState))
    /\ pokemon' = SimState0.pokemon
    /\ teams' = SimState0.teams
    /\ active_pokemon' = SimState0.active_pokemon
    /\ last_move' = SimState0.last_move
    /\ raised' = "none"
    /\ entry' = None
    /\ n' = 0
    /\ pc' = "swapped"
    /\ UNCHANGED <<log_text, lines, idx, battle_log, hash_seed>>

\* one iteration of the loop of the second run
ProcessSwapped ==
    /\ pc = "swapped"
    /\ raised = "none"
    /\ n < Len(battle_log)
    /\ Process(Swapped(battle_log, idx)[n + 1])
    /\ UNCHANGED <<pc, result, log_text, lines, idx, battle_log, hash_seed>>

\* the second run is over
EndSecond ==
    /\ pc = "swapped"
    /\ raised # "none" \/ n = Len(battle_log)
    /\ pc' = "done"
    /\ UNCHANGED <<pokemon, teams, active_pokemon, last_move, entry, n, raised, result,
                   log_text, lines, idx, battle_log, hash_seed>>

NextOrder == ProcessLogged \/ EndFirst \/ ProcessSwapped \/ EndSecond

SpecOrder == InitOrder /\ [][NextOrder]_vars

NoMoveBefore(log, k) == \A j \in 1..(k - 1) : Cmd(log[j]) # Str("move")

\* the entries at k and k + 1 are a move of a side and a -damage of 9/9 -> 5/9
\* on a combatant of the other side that was switched in before, no move and
\* no -damage coming earlier
MoveThenDamage(log, k) ==
    /\ Cmd(log[k]) = Str("move")
    /\ Cmd(log[k + 1]) = <<"-", "damage">>
    /\ SideOf(log[k]) # SideOf(log[k + 1])
    /\ NoMoveBefore(log, k)
    /\ \A j \in 1..(k - 1) : Cmd(log[j]) # <<"-", "damage">>
    /\ \E j \in 1..(k - 1) :
          Cmd(log[j]) = Str("switch") /\ log[j].args[1] = log[k + 1].args[1]

\* the entries at k and k + 1 are an attack move and a non-attack move of one
\* combatant that was switched in before, no move coming earlier; a faint of
\* the other side follows before any further move
TwoMovesThenFaint(log, k) ==
    /\ Cmd(log[k]) = Str("move")
    /\ Cmd(log[k + 1]) = Str("move")
    /\ log[k].args[1] = log[k + 1].args[1]
    /\ log[k].args[2] \notin NON_ATTACK_MOVES
    /\ log[k + 1].args[2] \in NON_ATTACK_MOVES
    /\ NoMoveBefore(log, k)
    /\ \E j \in 1..(k - 1) :
          Cmd(log[j]) = Str("switch") /\ log[j].args[1] = log[k].args[1]
    /\ \E m \in (k + 2)..Len(log) :
          /\ Cmd(log[m]) = Str("faint")
          /\ SideOf(log[m]) # SideOf(log[k])
          /\ \A j \in (k + 2)..(m - 1) : Cmd(log[j]) # Str("move")

\* C32: the engine is order-sensitive.  Two lists that differ only in the
\* order of a move and the -damage that follows it, or in the order of an
\* attack move and a non-attack move of one combatant before an opposing
\* faint, leave different knockout and damage counters.
C32_OrderSensitive ==
    (pc = "done" /\ (MoveThenDamage(battle_log, idx) \/ TwoMovesThenFaint(battle_log, idx)))
        => result[1] # Attribution(SimState)

\* switch, Thunderbolt, Recover, faint leaves the mover without knockout; with
\* the two moves exchanged the mover has one
C32_Witness ==
    /\ pc = "done"
    /\ TwoMovesThenFaint(battle_log, idx)
    /\ PikachuId \in DOMAIN result[1]
    /\ result[1][PikachuId].knockouts = 0
    /\ PikachuId \in DOMAIN pokemon
    /\ pokemon[PikachuId].knockouts = 1

-----------------------------------------------------------------------------
(* Agreement of the identifier a switch registers with the one other events *)
(* resolve                                                                  *)

\* C33: whatever the nickname, colons in it included, a switch or drag event
\* registers its combatant under the identifier that the other events resolve
\* from the same argument: after the event that identifier is registered, the
\* side's active slot holds it, and a well-formed HP given in the event is
\* recorded on it.
C33_SwitchRegistersResolvedId ==
    [][(IsSwitchStep /\ raised' = "none")
        => /\ IdentOf(entry'[1]) \in DOMAIN pokemon'
           /\ active_pokemon'[SideOf(entry'[1])] = Some(IdentOf(entry'[1]))
           /\ (Len(entry'[1].args) >= 3 /\ WellFormedHp(entry'[1].args[3]))
                 => /\ pokemon'[IdentOf(entry'[1])].hp_current
                          = Some(HpValue(entry'[1].args[3]))
                    /\ pokemon'[IdentOf(entry'[1])].hp_max
                          = Some(HpMaxValue(entry'[1].args[3]))]_vars

-----------------------------------------------------------------------------
(* The combatant recorded as a side's last mover *)

\* C34: in every state the actor of lastMove[S], when there is one, is a
\* registered combatant of side S: a move of an actor that was never switched
\* in does not make it the side's last mover.
C34_LastMoverRegistered ==
    \A S \in DOMAIN last_move :
        /\ last_move[S].pokemon \in DOMAIN pokemon
        /\ SideTag(last_move[S].pokemon) = S

-----------------------------------------------------------------------------
(* Knockouts against deaths *)

TotalKnockouts == SumOver([id \in DOMAIN pokemon |-> pokemon[id].knockouts], DOMAIN pokemon)
TotalDeaths    == SumOver([id \in DOMAIN pokemon |-> pokemon[id].deaths], DOMAIN pokemon)

\* C35: in every state the knockouts of all registered combatants together are
\* at most their deaths together: each knockout credited goes with a recorded
\* death of a registered combatant.
C35_KnockoutsAtMostDeaths == TotalKnockouts <= TotalDeaths

-----------------------------------------------------------------------------
(* No credit on the target's own side *)

\* C36: a -damage or faint event on a target of side S changes the
\* damageDealt or the knockouts of no combatant of side S: whoever is credited
\* has a side tag other than S.
C36_NoOwnSideCredit ==
    [][(IsStep /\ Cmd(entry'[1]) \in {<<"-", "damage">>, Str("faint")} /\ HasIdent(entry'[1]))
        => \A id \in DOMAIN pokemon :
              (\/ pokemon'[id].damage_dealt # pokemon[id].damage_dealt
               \/ pokemon'[id].knockouts # pokemon[id].knockouts)
                 => SideTag(id) # SideOf(entry'[1])]_vars

\* a -damage on a target that has taken 4 is credited to a combatant of the
\* other side, while a second combatant of the target's side has no credit
C36_Witness ==
    /\ entry # None
    /\ raised = "none"
    /\ Cmd(entry[1]) = <<"-", "damage">>
    /\ IdentOf(entry[1]) \in DOMAIN pokemon
    /\ pokemon[IdentOf(entry[1])].damage_taken = 4
    /\ \E id \in DOMAIN pokemon :
          SideTag(id) # SideOf(entry[1]) /\ pokemon[id].damage_dealt = 4
    /\ \E id \in DOMAIN pokemon \ {IdentOf(entry[1])} :
          SideTag(id) = SideOf(entry[1]) /\ pokemon[id].damage_dealt = 0

-----------------------------------------------------------------------------
(* The command of an emitted event *)

\* C37: every event the log processor has emitted has a non-empty command: a
\* line of delimiters only, such as '|', gives no event.
C37_CommandNonEmpty ==
    \A i \in 1..Len(battle_log) : battle_log[i].command # << >>

-----------------------------------------------------------------------------
(* Two calls of parse_raw_log on one ReplayParser:                          *)
(*   first  = parser.parse_raw_log(text1)                                   *)
(*   second = parser.parse_raw_log(text2)                                   *)
(* The dictionary a call returns holds the list object self.battle_log is   *)
(* bound to.  result keeps the first call's text and list: while shared is  *)
(* TRUE the list is still the object self.battle_log names, and its content *)
(* is battle_log; otherwise its content is the field battle_log of result.  *)

MaxReparseLines == 2

ReparseLogs ==
    { Join(ls) : ls \in SeqsUpTo({SwitchPikachuLine, WinLine, ChatCLine, BlankLine, DashLine},
                                 MaxReparseLines) }

InitReparse == InitParser(ReparseLogs)

\* "return {'metadata': ..., 'battle_log': self.battle_log}" of the first call
ReturnFirst ==
    /\ pc = "parsed"
    /\ result = None
    /\ result' = Some([log_text |-> log_text, battle_log |-> battle_log, shared |-> TRUE])
    /\ pc' = "returned"
    /\ UNCHANGED <<pokemon, teams, active_pokemon, last_move, entry, n, raised,
                   log_text, lines, idx, battle_log, hash_seed>>

\* "self.battle_log.clear()" in place of the assignment: the list returned
\* before is emptied and stays bound
ResetLog_Clear(log, first) == [battle_log |-> << >>, first |-> first]

\* "self.battle_log = []": the name is bound to a new list, and the list
\* returned before keeps the content it has
ResetLog(log, first) ==
    [battle_log |-> << >>,
     first |-> [first EXCEPT !.shared = FALSE,
                             !.battle_log = IF first.shared THEN log ELSE @]]

\* the second call up to the loop of _process_log, on a text of its own
ParseAgain ==
    /\ pc = "returned"
    /\ \E text \in ReparseLogs :
          /\ log_text' = text
          /\ lines' = Split(text, <<"\n">>)
    /\ battle_log' = ResetLog(battle_log, result[1]).battle_log
    /\ result' = Some(ResetLog(battle_log, result[1]).first)
    /\ idx' = 1
    /\ pc' = "loop"
    /\ UNCHANGED <<pokemon, teams, active_pokemon, last_move, entry, n, raised, hash_seed>>

\* the return statement of the second call
ReturnSecond ==
    /\ pc = "parsed"
    /\ result # None
    /\ pc' = "done"
    /\ UNCHANGED <<pokemon, teams, active_pokemon, last_move, entry, n, raised, result,
                   log_text, lines, idx, battle_log, hash_seed>>

NextReparse == ParseRawLog \/ ProcessLogStep \/ ReturnFirst \/ ParseAgain \/ ReturnSecond

SpecReparse == InitReparse /\ [][NextReparse]_vars

\* the content of the list the first call returned
FirstList == IF result[1].shared THEN battle_log ELSE result[1].battle_log

\* C38: the second call returns the events of its own text and nothing else,
\* whatever the first text was and whether or not it had a terminal line; and
\* from the first call's return on, the list it returned holds the events of
\* the first text: the second call does not modify it.
C38_CallsIndependent ==
    /\ pc = "done" => battle_log = EventsOf(Split(log_text, <<"\n">>))
    /\ result # None => FirstList = EventsOf(Split(result[1].log_text, <<"\n">>))

\* a first text without terminal line gave one event, and the second call has
\* returned another single event of its own text
C38_Witness ==
    /\ pc = "done"
    /\ result[1].log_text = SwitchPikachuLine
    /\ Len(FirstList) = 1
    /\ log_text = WinLine
    /\ Len(battle_log) = 1
    /\ battle_log # FirstList

====
